---- MODULE Spec2Model ----
(***************************************************************************)
(* A model of modmapper's ingestion pipeline: the `update` orchestrator    *)
(* (src/src/commands/update.rs), the persistence layer it calls            *)
(* (src/src/models/*.rs), the API client (src/src/nexus_api/*.rs), the     *)
(* listing scraper, the archive extractors and the plugin processor.       *)
(*                                                                         *)
(* Text values are token sequences (<<"a.esp">>), so that a path can be    *)
(* split at its separators; SQL NULL / Rust None is NullInt for numeric    *)
(* and timestamp columns and NullStr for text columns.                     *)
(***************************************************************************)
EXTENDS Integers, Sequences, FiniteSets, TLC

VARIABLES
    db,     \* the relational store: one set of rows per table, plus the id sequences
    blobs,  \* the plugin blob store: the set of [path, buf] files on disk
    up,     \* the upstream service: listing pages, files of each mod, request outcomes
    now,    \* the wall clock, in ticks
    orch,   \* the locals of one call of `update`, and its position (orch.pc)
    hist    \* observations about the run in progress and the runs before it

vars == <<db, blobs, up, now, orch, hist>>

(***************************************************************************)
(* Bounds of the model.                                                    *)
(***************************************************************************)
TicksPerDay == 3
MaxRuns == 2
MaxEvents == 4
MaxPage == 53

(***************************************************************************)
(* Program constants.                                                      *)
(***************************************************************************)
BATCH_SIZE == 50
NO_UPDATE_PAGES == 50
PAGE_SIZE == 100
GAME_ID == 1704
GAME_NAME == <<"skyrimspecialedition">>
MASTER_SHIFT == 16777216

NullInt == -1
NullStr == <<>>

(***************************************************************************)
(* Generic helpers.                                                        *)
(***************************************************************************)
Range(s) == {s[i] : i \in 1..Len(s)}

Min2(a, b) == IF a < b THEN a ELSE b

\* the element of a one-element set
The(S) == CHOOSE x \in S : TRUE

\* slice.chunks(n): consecutive chunks of at most n elements
RECURSIVE Chunks(_, _)
Chunks(s, n) ==
    IF s = <<>> THEN <<>>
    ELSE <<SubSeq(s, 1, Min2(n, Len(s)))>> \o Chunks(SubSeq(s, Min2(n, Len(s)) + 1, Len(s)), n)

\* NaiveDate of a timestamp, and NaiveDateTime::new(date, 00:00:00)
DateOf(t) == t \div TicksPerDay
AtMidnight(d) == d * TicksPerDay

(***************************************************************************)
(* Persistence layer: games, mods, files.                                  *)
(***************************************************************************)
EmptyDb ==
    [games |-> {}, mods |-> {}, files |-> {}, plugins |-> {}, worlds |-> {},
     cells |-> {}, plugin_worlds |-> {}, plugin_cells |-> {},
     seq |-> [games |-> 1, mods |-> 1, files |-> 1, plugins |-> 1, worlds |-> 1,
              cells |-> 1, plugin_worlds |-> 1, plugin_cells |-> 1]]

\* game::insert: upsert on (nexus_game_id, name); returns [db, row]
game_insert(d, name, nexus_game_id, t) ==
    LET ex == {g \in d.games : g.nexus_game_id = nexus_game_id /\ g.name = name} IN
    IF ex # {}
    THEN LET old == CHOOSE g \in ex : TRUE
             row == [old EXCEPT !.name = name, !.updated_at = t]
         IN [db |-> [d EXCEPT !.games = (@ \ {old}) \cup {row}], row |-> row]
    ELSE LET row == [id |-> d.seq.games, name |-> name, nexus_game_id |-> nexus_game_id,
                     created_at |-> t, updated_at |-> t]
         IN [db |-> [d EXCEPT !.games = @ \cup {row}, !.seq.games = @ + 1], row |-> row]

\* game_mod::bulk_get_last_updated_by_nexus_mod_ids
bulk_get_last_updated_by_nexus_mod_ids(d, game_id, nexus_mod_ids) ==
    {[nexus_mod_id |-> m.nexus_mod_id, last_updated_files_at |-> m.last_updated_files_at] :
        m \in {r \in d.mods : /\ r.game_id = game_id
                              /\ r.nexus_mod_id \in nexus_mod_ids
                              /\ r.last_updated_files_at # NullInt}}

\* the upsert with last_updated_files_at among the columns it sets on conflict
mod_upsert_touching_files_at(acc, u, t) ==
    LET d == acc.db
        ex == {m \in d.mods : m.game_id = u.game_id /\ m.nexus_mod_id = u.nexus_mod_id}
        row == IF ex # {}
               THEN [The(ex) EXCEPT !.name = u.name, !.is_translation = u.is_translation,
                                    !.last_update_at = u.last_update_at,
                                    !.last_updated_files_at = t, !.updated_at = t]
               ELSE [id |-> d.seq.mods, nexus_mod_id |-> u.nexus_mod_id,
                     game_id |-> u.game_id, name |-> u.name,
                     is_translation |-> u.is_translation,
                     last_update_at |-> u.last_update_at,
                     last_updated_files_at |-> NullInt,
                     created_at |-> t, updated_at |-> t]
    IN [db |-> IF ex # {}
               THEN [d EXCEPT !.mods = (@ \ ex) \cup {row}]
               ELSE [d EXCEPT !.mods = @ \cup {row}, !.seq.mods = @ + 1],
        rows |-> Append(acc.rows, row)]

\* INSERT INTO mods ... ON CONFLICT (game_id, nexus_mod_id) DO UPDATE ... RETURNING *,
\* for one row of the batch; acc is [db, rows], the rows returned so far
mod_upsert(acc, u, t) ==
    LET d == acc.db
        ex == {m \in d.mods : m.game_id = u.game_id /\ m.nexus_mod_id = u.nexus_mod_id}
        row == IF ex # {}
               THEN [The(ex) EXCEPT !.name = u.name, !.is_translation = u.is_translation,
                                    !.last_update_at = u.last_update_at, !.updated_at = t]
               ELSE [id |-> d.seq.mods, nexus_mod_id |-> u.nexus_mod_id,
                     game_id |-> u.game_id, name |-> u.name,
                     is_translation |-> u.is_translation,
                     last_update_at |-> u.last_update_at,
                     last_updated_files_at |-> NullInt,
                     created_at |-> t, updated_at |-> t]
    IN [db |-> IF ex # {}
               THEN [d EXCEPT !.mods = (@ \ ex) \cup {row}]
               ELSE [d EXCEPT !.mods = @ \cup {row}, !.seq.mods = @ + 1],
        rows |-> Append(acc.rows, row)]

\* one statement: the rows of one batch
RECURSIVE mods_upsert(_, _, _)
mods_upsert(acc0, batch, t) ==
    IF batch = <<>> THEN acc0
    ELSE mods_upsert(The({mod_upsert(acc, Head(batch), t) : acc \in {acc0}}), Tail(batch), t)

RECURSIVE mods_insert_chunks(_, _, _)
mods_insert_chunks(acc0, chunks, t) ==
    IF chunks = <<>> THEN acc0
    ELSE mods_insert_chunks(mods_upsert(acc0, Head(chunks), t), Tail(chunks), t)

\* game_mod::batched_insert: one statement per chunk of BATCH_SIZE; returns [db, rows]
game_mod_batched_insert(d, mods, t) ==
    mods_insert_chunks([db |-> d, rows |-> <<>>], Chunks(mods, BATCH_SIZE), t)

\* game_mod::update_last_updated_files_at
update_last_updated_files_at(d, id, t) ==
    [d EXCEPT !.mods = {IF m.id = id THEN [m EXCEPT !.last_updated_files_at = t] ELSE m : m \in @}]

\* a lookup of the processed files that finds none
get_processed_nexus_file_ids_none(d, mod_id) == {}

\* file::get_processed_nexus_file_ids_by_mod_id
get_processed_nexus_file_ids_by_mod_id(d, mod_id) ==
    {f.nexus_file_id : f \in {r \in d.files : /\ r.mod_id = mod_id
                                             /\ \/ r.downloaded_at # NullInt
                                                \/ r.has_plugin = FALSE
                                                \/ r.has_download_link = FALSE}}

\* an upsert that writes the column defaults of a new row over the existing row
file_insert_defaults(d, u, t) ==
    LET ex == {f \in d.files : f.mod_id = u.mod_id /\ f.nexus_file_id = u.nexus_file_id} IN
    IF ex # {}
    THEN LET old == CHOOSE f \in ex : TRUE
             row == [old EXCEPT !.name = u.name, !.category = u.category, !.updated_at = t,
                                !.has_download_link = TRUE, !.downloaded_at = NullInt,
                                !.has_plugin = TRUE, !.unable_to_extract_plugins = FALSE]
         IN [db |-> [d EXCEPT !.files = (@ \ {old}) \cup {row}], row |-> row]
    ELSE LET row == [id |-> d.seq.files, nexus_file_id |-> u.nexus_file_id,
                     mod_id |-> u.mod_id, name |-> u.name, category |-> u.category,
                     has_download_link |-> TRUE, downloaded_at |-> NullInt,
                     has_plugin |-> TRUE, unable_to_extract_plugins |-> FALSE,
                     created_at |-> t, updated_at |-> t]
         IN [db |-> [d EXCEPT !.files = @ \cup {row}, !.seq.files = @ + 1], row |-> row]

\* file::insert: upsert on (mod_id, nexus_file_id); returns [db, row]
file_insert(d, u, t) ==
    LET ex == {f \in d.files : f.mod_id = u.mod_id /\ f.nexus_file_id = u.nexus_file_id} IN
    IF ex # {}
    THEN LET old == CHOOSE f \in ex : TRUE
             row == [old EXCEPT !.name = u.name, !.category = u.category, !.updated_at = t]
         IN [db |-> [d EXCEPT !.files = (@ \ {old}) \cup {row}], row |-> row]
    ELSE LET row == [id |-> d.seq.files, nexus_file_id |-> u.nexus_file_id,
                     mod_id |-> u.mod_id, name |-> u.name, category |-> u.category,
                     has_download_link |-> TRUE, downloaded_at |-> NullInt,
                     has_plugin |-> TRUE, unable_to_extract_plugins |-> FALSE,
                     created_at |-> t, updated_at |-> t]
         IN [db |-> [d EXCEPT !.files = @ \cup {row}, !.seq.files = @ + 1], row |-> row]

\* file::update_has_download_link
update_has_download_link(d, id, v) ==
    [d EXCEPT !.files = {IF f.id = id THEN [f EXCEPT !.has_download_link = v] ELSE f : f \in @}]

\* file::update_downloaded_at
update_downloaded_at(d, id, t) ==
    [d EXCEPT !.files = {IF f.id = id THEN [f EXCEPT !.downloaded_at = t] ELSE f : f \in @}]

\* file::update_has_plugin
update_has_plugin(d, id, v) ==
    [d EXCEPT !.files = {IF f.id = id THEN [f EXCEPT !.has_plugin = v] ELSE f : f \in @}]

\* file::update_unable_to_extract_plugins
update_unable_to_extract_plugins(d, id, v) ==
    [d EXCEPT !.files = {IF f.id = id THEN [f EXCEPT !.unable_to_extract_plugins = v] ELSE f : f \in @}]

(***************************************************************************)
(* Persistence layer: plugins, worlds, cells and the two join tables.      *)
(***************************************************************************)
\* plugin::insert: upsert on (file_id, file_path); returns [db, row]
plugin_insert(d, u, t) ==
    LET ex == {p \in d.plugins : p.file_id = u.file_id /\ p.file_path = u.file_path} IN
    IF ex # {}
    THEN LET old == CHOOSE p \in ex : TRUE
             row == [old EXCEPT !.name = u.name, !.hash = u.hash, !.mod_id = u.mod_id,
                                !.masters = u.masters, !.file_name = u.file_name,
                                !.updated_at = t]
         IN [db |-> [d EXCEPT !.plugins = (@ \ {old}) \cup {row}], row |-> row]
    ELSE LET row == [id |-> d.seq.plugins, name |-> u.name, hash |-> u.hash,
                     file_id |-> u.file_id, mod_id |-> u.mod_id, masters |-> u.masters,
                     file_name |-> u.file_name, file_path |-> u.file_path,
                     created_at |-> t, updated_at |-> t]
         IN [db |-> [d EXCEPT !.plugins = @ \cup {row}, !.seq.plugins = @ + 1], row |-> row]

\* INSERT INTO worlds ... ON CONFLICT (form_id, master) DO UPDATE ... RETURNING *,
\* for one row of the batch; acc is [db, rows]
world_upsert(acc, u, t) ==
    LET d == acc.db
        ex == {w \in d.worlds : w.form_id = u.form_id /\ w.master = u.master}
        row == IF ex # {}
               THEN [The(ex) EXCEPT !.updated_at = t]
               ELSE [id |-> d.seq.worlds, form_id |-> u.form_id, master |-> u.master,
                     created_at |-> t, updated_at |-> t]
    IN [db |-> IF ex # {}
               THEN [d EXCEPT !.worlds = (@ \ ex) \cup {row}]
               ELSE [d EXCEPT !.worlds = @ \cup {row}, !.seq.worlds = @ + 1],
        rows |-> Append(acc.rows, row)]

RECURSIVE worlds_upsert(_, _, _)
worlds_upsert(acc0, batch, t) ==
    IF batch = <<>> THEN acc0
    ELSE worlds_upsert(The({world_upsert(acc, Head(batch), t) : acc \in {acc0}}), Tail(batch), t)

RECURSIVE worlds_insert_chunks(_, _, _)
worlds_insert_chunks(acc0, chunks, t) ==
    IF chunks = <<>> THEN acc0
    ELSE worlds_insert_chunks(worlds_upsert(acc0, Head(chunks), t), Tail(chunks), t)

\* world::batched_insert; returns [db, rows]
world_batched_insert(d, worlds, t) ==
    worlds_insert_chunks([db |-> d, rows |-> <<>>], Chunks(worlds, BATCH_SIZE), t)

\* INSERT INTO plugin_worlds ... ON CONFLICT (plugin_id, world_id) DO UPDATE ...,
\* for one row of the batch
plugin_world_upsert(d, u, t) ==
    LET ex == {r \in d.plugin_worlds : r.plugin_id = u.plugin_id /\ r.world_id = u.world_id}
        row == IF ex # {}
               THEN [The(ex) EXCEPT !.editor_id = u.editor_id, !.updated_at = t]
               ELSE [id |-> d.seq.plugin_worlds, plugin_id |-> u.plugin_id,
                     world_id |-> u.world_id, editor_id |-> u.editor_id,
                     created_at |-> t, updated_at |-> t]
    IN IF ex # {}
       THEN [d EXCEPT !.plugin_worlds = (@ \ ex) \cup {row}]
       ELSE [d EXCEPT !.plugin_worlds = @ \cup {row}, !.seq.plugin_worlds = @ + 1]

RECURSIVE plugin_worlds_upsert(_, _, _)
plugin_worlds_upsert(d0, batch, t) ==
    IF batch = <<>> THEN d0
    ELSE plugin_worlds_upsert(The({plugin_world_upsert(d, Head(batch), t) : d \in {d0}}),
                              Tail(batch), t)

RECURSIVE plugin_worlds_insert_chunks(_, _, _)
plugin_worlds_insert_chunks(d0, chunks, t) ==
    IF chunks = <<>> THEN d0
    ELSE plugin_worlds_insert_chunks(plugin_worlds_upsert(d0, Head(chunks), t), Tail(chunks), t)

\* plugin_world::batched_insert; returns the database
plugin_world_batched_insert(d, plugin_worlds, t) ==
    plugin_worlds_insert_chunks(d, Chunks(plugin_worlds, BATCH_SIZE), t)

\* The arbiter of ON CONFLICT (form_id, master, world_id) on cells: the unique
\* index treats NULLs as distinct, so a row with world_id NULL conflicts with nothing
\* (is_base_game.rs:65-68, deduplicate_interior_cells.rs:1-4).
cell_conflicts(d, u) ==
    {c \in d.cells : /\ u.world_id # NullInt
                     /\ c.form_id = u.form_id /\ c.master = u.master
                     /\ c.world_id = u.world_id}

\* a cell upsert whose ON CONFLICT clause carries no WHERE filter in either mode
on_conflict_where_unfiltered(c, allow_upserting_base_game_cells) == TRUE

\* the WHERE of DO UPDATE: none in seed mode, NOT cells.is_base_game in normal mode
on_conflict_where(c, allow_upserting_base_game_cells) ==
    allow_upserting_base_game_cells \/ ~c.is_base_game

\* INSERT INTO cells ... ON CONFLICT ... DO UPDATE ... [WHERE NOT cells.is_base_game]
\* RETURNING *, for one row of the batch: a conflicting row that the WHERE clause
\* rejects is neither updated nor returned; acc is [db, rows]
cell_upsert(acc, u, allow_upserting_base_game_cells, t) ==
    LET d == acc.db
        ex == cell_conflicts(d, u)
        updates == \A c \in ex : on_conflict_where(c, allow_upserting_base_game_cells)
        row == IF ex # {}
               THEN [The(ex) EXCEPT !.x = u.x, !.y = u.y, !.is_persistent = u.is_persistent,
                                    !.is_base_game = u.is_base_game, !.updated_at = t]
               ELSE [id |-> d.seq.cells, form_id |-> u.form_id, master |-> u.master,
                     x |-> u.x, y |-> u.y, world_id |-> u.world_id,
                     is_persistent |-> u.is_persistent, is_base_game |-> u.is_base_game,
                     created_at |-> t, updated_at |-> t]
    IN IF ex = {}
       THEN [acc EXCEPT !.db = [d EXCEPT !.cells = @ \cup {row}, !.seq.cells = @ + 1],
                        !.rows = Append(acc.rows, row)]
       ELSE IF updates
       THEN [acc EXCEPT !.db = [d EXCEPT !.cells = (@ \ ex) \cup {row}],
                        !.rows = Append(acc.rows, row)]
       ELSE acc

RECURSIVE cells_upsert(_, _, _, _)
cells_upsert(acc0, batch, allow_upserting_base_game_cells, t) ==
    IF batch = <<>> THEN acc0
    ELSE cells_upsert(The({cell_upsert(acc, Head(batch), allow_upserting_base_game_cells, t) :
                               acc \in {acc0}}),
                      Tail(batch), allow_upserting_base_game_cells, t)

\* the statement fails ("ON CONFLICT DO UPDATE command cannot affect row a second
\* time") when two rows of its batch arbitrate on one row that it inserts or updates
affects_row_twice(d, batch, allow_upserting_base_game_cells) ==
    \E i, j \in 1..Len(batch) :
        /\ i < j
        /\ batch[i].world_id # NullInt
        /\ batch[i].form_id = batch[j].form_id
        /\ batch[i].master = batch[j].master
        /\ batch[i].world_id = batch[j].world_id
        /\ \A c \in cell_conflicts(d, batch[i]) :
               on_conflict_where(c, allow_upserting_base_game_cells)

\* for batch in cells.chunks(BATCH_SIZE) { .. .fetch_all(pool).await.context(..)? }
RECURSIVE cells_insert_chunks(_, _, _, _)
cells_insert_chunks(acc0, chunks, allow_upserting_base_game_cells, t) ==
    IF chunks = <<>> \/ ~acc0.ok THEN acc0
    ELSE IF affects_row_twice(acc0.db, Head(chunks), allow_upserting_base_game_cells)
    THEN [acc0 EXCEPT !.ok = FALSE]
    ELSE cells_insert_chunks(cells_upsert(acc0, Head(chunks), allow_upserting_base_game_cells, t),
                             Tail(chunks), allow_upserting_base_game_cells, t)

\* cell::batched_insert; returns [db, rows, ok], ok FALSE when a statement failed
cell_batched_insert(d, cells, allow_upserting_base_game_cells, t) ==
    cells_insert_chunks([db |-> d, rows |-> <<>>, ok |-> TRUE], Chunks(cells, BATCH_SIZE),
                        allow_upserting_base_game_cells, t)

\* INSERT INTO plugin_cells ... ON CONFLICT (plugin_id, cell_id) DO UPDATE ...,
\* for one row of the batch
plugin_cell_upsert(d, u, t) ==
    LET ex == {r \in d.plugin_cells : r.plugin_id = u.plugin_id /\ r.cell_id = u.cell_id}
        row == IF ex # {}
               THEN [The(ex) EXCEPT !.editor_id = u.editor_id, !.updated_at = t]
               ELSE [id |-> d.seq.plugin_cells, plugin_id |-> u.plugin_id,
                     cell_id |-> u.cell_id, editor_id |-> u.editor_id,
                     created_at |-> t, updated_at |-> t]
    IN IF ex # {}
       THEN [d EXCEPT !.plugin_cells = (@ \ ex) \cup {row}]
       ELSE [d EXCEPT !.plugin_cells = @ \cup {row}, !.seq.plugin_cells = @ + 1]

RECURSIVE plugin_cells_upsert(_, _, _)
plugin_cells_upsert(d0, batch, t) ==
    IF batch = <<>> THEN d0
    ELSE plugin_cells_upsert(The({plugin_cell_upsert(d, Head(batch), t) : d \in {d0}}),
                             Tail(batch), t)

RECURSIVE plugin_cells_insert_chunks(_, _, _)
plugin_cells_insert_chunks(d0, chunks, t) ==
    IF chunks = <<>> THEN d0
    ELSE plugin_cells_insert_chunks(plugin_cells_upsert(d0, Head(chunks), t), Tail(chunks), t)

\* plugin_cell::batched_insert; returns the database
plugin_cell_batched_insert(d, plugin_cells, t) ==
    plugin_cells_insert_chunks(d, Chunks(plugin_cells, BATCH_SIZE), t)

(***************************************************************************)
(* Plugin contents.  skyrim_cell_dump::parse_plugin and seahash::hash are  *)
(* libraries; they are given by their results on the buffers the upstream  *)
(* archives of the model contain.                                          *)
(***************************************************************************)
EmptyBuf == "buf_empty"

SkyrimEsm == <<"Skyrim.esm">>

\* data/skyrim.json, the parsed base-game plugin read by backfill_is_base_game
BasePlugin ==
    [header |-> [masters |-> <<>>],
     worlds |-> <<[form_id |-> 60, editor_id |-> <<"Tamriel">>]>>,
     cells |-> <<[form_id |-> 3444, world_form_id |-> 60, editor_id |-> <<"WhiterunExterior01">>,
                  x |-> 1, y |-> 1, is_persistent |-> FALSE],
                 [form_id |-> 16, world_form_id |-> NullInt, editor_id |-> <<"Helgen01">>,
                  x |-> NullInt, y |-> NullInt, is_persistent |-> FALSE]>>]

\* a plugin that edits a base-game exterior cell, adds an exterior cell of its own
\* to the base-game world and adds an interior cell of its own
PluginA ==
    [header |-> [masters |-> <<SkyrimEsm>>],
     worlds |-> <<[form_id |-> 60, editor_id |-> <<"Tamriel">>]>>,
     cells |-> <<[form_id |-> 3444, world_form_id |-> 60, editor_id |-> <<"WhiterunEdit">>,
                  x |-> 1, y |-> 1, is_persistent |-> TRUE],
                 [form_id |-> MASTER_SHIFT + 1, world_form_id |-> 60, editor_id |-> <<"NewCell">>,
                  x |-> 2, y |-> 2, is_persistent |-> FALSE],
                 [form_id |-> MASTER_SHIFT + 2, world_form_id |-> NullInt, editor_id |-> <<"Room">>,
                  x |-> NullInt, y |-> NullInt, is_persistent |-> FALSE]>>]

\* a plugin without masters: one world and one exterior cell of its own
PluginB ==
    [header |-> [masters |-> <<>>],
     worlds |-> <<[form_id |-> 5, editor_id |-> <<"Island">>]>>,
     cells |-> <<[form_id |-> 6, world_form_id |-> 5, editor_id |-> NullStr,
                  x |-> 0, y |-> 0, is_persistent |-> FALSE]>>]

\* a plugin that holds two records of one base-game interior cell
PluginC ==
    [header |-> [masters |-> <<SkyrimEsm>>],
     worlds |-> <<>>,
     cells |-> <<[form_id |-> 16, world_form_id |-> NullInt, editor_id |-> <<"HelgenEdit">>,
                  x |-> NullInt, y |-> NullInt, is_persistent |-> FALSE],
                 [form_id |-> 16, world_form_id |-> NullInt, editor_id |-> <<"HelgenAgain">>,
                  x |-> NullInt, y |-> NullInt, is_persistent |-> FALSE]>>]

\* a plugin that holds two records of one exterior cell of its own
PluginD ==
    [header |-> [masters |-> <<>>],
     worlds |-> <<[form_id |-> 5, editor_id |-> <<"Island">>]>>,
     cells |-> <<[form_id |-> 7, world_form_id |-> 5, editor_id |-> <<"Shore">>,
                  x |-> 0, y |-> 1, is_persistent |-> FALSE],
                 [form_id |-> 7, world_form_id |-> 5, editor_id |-> <<"ShoreAgain">>,
                  x |-> 0, y |-> 1, is_persistent |-> FALSE]>>]

NoPlugin == [header |-> [masters |-> <<>>], worlds |-> <<>>, cells |-> <<>>]

Bufs == {"buf_a", "buf_b", "buf_c", "buf_d", "buf_bad", EmptyBuf}

\* skyrim_cell_dump::parse_plugin.  The library is not part of the repository; its
\* results keep its contract: a cell record carries x and y exactly when it carries
\* a world_form_id
parse_plugin(buf) ==
    CASE buf = "buf_a" -> [ok |-> TRUE, plugin |-> PluginA]
      [] buf = "buf_b" -> [ok |-> TRUE, plugin |-> PluginB]
      [] buf = "buf_c" -> [ok |-> TRUE, plugin |-> PluginC]
      [] buf = "buf_d" -> [ok |-> TRUE, plugin |-> PluginD]
      [] OTHER -> [ok |-> FALSE, plugin |-> NoPlugin]

\* seahash::hash of the buffer
seahash(buf) ==
    CASE buf = "buf_a" -> 101
      [] buf = "buf_b" -> 102
      [] buf = "buf_bad" -> 103
      [] buf = "buf_c" -> 104
      [] buf = "buf_d" -> 105
      [] OTHER -> 100

(***************************************************************************)
(* Plugin processor.                                                       *)
(***************************************************************************)
\* Path::file_name on a unix path: what follows the last "/"
LastSlash(p) ==
    CHOOSE i \in 0..Len(p) : /\ i = 0 \/ p[i] = "/"
                             /\ \A j \in (i + 1)..Len(p) : p[j] # "/"
FileNameOf(p) == SubSeq(p, LastSlash(p) + 1, Len(p))

\* the decoding with a shift of 16 bits in the place of 24
get_local_form_id_and_master_shift16(form_id, masters, file_name) ==
    LET master_index == form_id \div 65536
        local_form_id == form_id % MASTER_SHIFT
    IN IF master_index >= Len(masters)
       THEN [form_id |-> local_form_id, master |-> file_name]
       ELSE [form_id |-> local_form_id, master |-> masters[master_index + 1]]

\* get_local_form_id_and_master: form_id >> 24 and form_id & 0xFFFFFF
get_local_form_id_and_master(form_id, masters, file_name) ==
    LET master_index == form_id \div MASTER_SHIFT
        local_form_id == form_id % MASTER_SHIFT
    IN IF master_index >= Len(masters)
       THEN [form_id |-> local_form_id, master |-> file_name]
       ELSE [form_id |-> local_form_id, master |-> masters[master_index + 1]]

\* iter().zip(): pairs up to the length of the shorter sequence
ZipLen(a, b) == Min2(Len(a), Len(b))

\* the path the raw bytes are written to: joining an absolute file_path to
\* plugins/<game>/<mod>/<file> replaces what precedes it (PathBuf::push)
plugin_path(db_mod, db_file, file_path) ==
    IF file_path # <<>> /\ Head(file_path) = "/"
    THEN [game |-> NullStr, nexus_mod_id |-> NullInt, nexus_file_id |-> NullInt,
          file_path |-> file_path]
    ELSE [game |-> GAME_NAME, nexus_mod_id |-> db_mod.nexus_mod_id,
          nexus_file_id |-> db_file.nexus_file_id, file_path |-> file_path]

\* File::create + write_all: creates or truncates the file at the path
write_blob(bl, at, buf) ==
    {b \in bl : b.at # at} \cup {[at |-> at, buf |-> buf]}

\* plugin_processor.rs 59-74: the UnsavedPlugin
unsaved_plugin(plugin, plugin_buf, db_file, db_mod, file_path) ==
    [name |-> db_file.name, hash |-> seahash(plugin_buf), file_id |-> db_file.id,
     mod_id |-> db_mod.id, masters |-> plugin.header.masters,
     file_name |-> FileNameOf(file_path), file_path |-> file_path]

\* plugin_processor.rs 77-86: the UnsavedWorld of every world record
unsaved_worlds(plugin, file_name) ==
    [i \in 1..Len(plugin.worlds) |->
        get_local_form_id_and_master(plugin.worlds[i].form_id, plugin.header.masters, file_name)]

\* plugin_processor.rs 88-96: db_worlds.iter().zip(&plugin.worlds)
unsaved_plugin_worlds(plugin, plugin_row, db_worlds) ==
    [i \in 1..ZipLen(db_worlds, plugin.worlds) |->
        [plugin_id |-> plugin_row.id, world_id |-> db_worlds[i].id,
         editor_id |-> plugin.worlds[i].editor_id]]

\* db_worlds.iter().find(..): the positions of the rows with the cell's world
world_positions(plugin, file_name, db_worlds, cell) ==
    {i \in 1..Len(db_worlds) :
        \E k \in {get_local_form_id_and_master(cell.world_form_id, plugin.header.masters,
                                               file_name)} :
            db_worlds[i].form_id = k.form_id /\ db_worlds[i].master = k.master}

\* .expect("cell references world in the plugin worlds") fails
expect_world_fails(plugin, file_name, db_worlds) ==
    \E i \in 1..Len(plugin.cells) :
        /\ plugin.cells[i].world_form_id # NullInt
        /\ world_positions(plugin, file_name, db_worlds, plugin.cells[i]) = {}

\* the UnsavedCell of every cell record with the world's form_id in the place of
\* the id of its row
unsaved_cells_world_form_id(plugin, file_name, db_worlds) ==
    [i \in 1..Len(plugin.cells) |->
        The({[form_id |-> k.form_id, master |-> k.master,
              x |-> plugin.cells[i].x, y |-> plugin.cells[i].y,
              world_id |-> IF plugin.cells[i].world_form_id # NullInt
                           THEN plugin.cells[i].world_form_id % MASTER_SHIFT
                           ELSE NullInt,
              is_persistent |-> plugin.cells[i].is_persistent,
              is_base_game |-> FALSE] :
             k \in {get_local_form_id_and_master(plugin.cells[i].form_id,
                                                 plugin.header.masters, file_name)}})]

\* the UnsavedCell of every cell record with the world of the first world row
unsaved_cells_first_world(plugin, file_name, db_worlds) ==
    [i \in 1..Len(plugin.cells) |->
        The({[form_id |-> k.form_id, master |-> k.master,
              x |-> plugin.cells[i].x, y |-> plugin.cells[i].y,
              world_id |-> IF db_worlds # <<>> THEN db_worlds[1].id ELSE NullInt,
              is_persistent |-> plugin.cells[i].is_persistent,
              is_base_game |-> FALSE] :
             k \in {get_local_form_id_and_master(plugin.cells[i].form_id,
                                                 plugin.header.masters, file_name)}})]

\* plugin_processor.rs 99-129: the UnsavedCell of every cell record
unsaved_cells(plugin, file_name, db_worlds) ==
    [i \in 1..Len(plugin.cells) |->
        The({[form_id |-> k.form_id, master |-> k.master,
              x |-> plugin.cells[i].x, y |-> plugin.cells[i].y,
              world_id |-> IF plugin.cells[i].world_form_id # NullInt
                           THEN The({db_worlds[first].id :
                                     first \in {j \in found : \A j2 \in found : j <= j2}})
                           ELSE NullInt,
              is_persistent |-> plugin.cells[i].is_persistent,
              is_base_game |-> FALSE] :
             k \in {get_local_form_id_and_master(plugin.cells[i].form_id,
                                                 plugin.header.masters, file_name)},
             found \in {IF plugin.cells[i].world_form_id # NullInt
                        THEN world_positions(plugin, file_name, db_worlds, plugin.cells[i])
                        ELSE {}}})]

\* plugin_processor.rs 131-141: db_cells.iter().zip(&plugin.cells)
unsaved_plugin_cells(plugin, plugin_row, db_cells) ==
    [i \in 1..ZipLen(db_cells, plugin.cells) |->
        [plugin_id |-> plugin_row.id, cell_id |-> db_cells[i].id,
         editor_id |-> plugin.cells[i].editor_id]]

\* process_plugin, the Ok(plugin) arm: Plugin, Worlds, PluginWorlds, Cells, PluginCells;
\* returns [db, res]
persist_parsed_plugin(d, plugin, plugin_buf, db_file, db_mod, file_path, t) ==
    The({The({The({
           IF expect_world_fails(plugin, FileNameOf(file_path), w1.rows)
           THEN [db |-> pw1, res |-> "panic"]
           ELSE The({IF ~c1.ok
                     THEN [db |-> c1.db, res |-> "db_error"]
                     ELSE [db |-> plugin_cell_batched_insert(
                                      c1.db, unsaved_plugin_cells(plugin, p1.row, c1.rows), t),
                           res |-> "ok"] :
                     c1 \in {cell_batched_insert(
                                pw1, unsaved_cells(plugin, FileNameOf(file_path), w1.rows),
                                FALSE, t)}}) :
           pw1 \in {plugin_world_batched_insert(
                       w1.db, unsaved_plugin_worlds(plugin, p1.row, w1.rows), t)}}) :
           w1 \in {world_batched_insert(p1.db, unsaved_worlds(plugin, FileNameOf(file_path)), t)}}) :
           p1 \in {plugin_insert(d, unsaved_plugin(plugin, plugin_buf, db_file, db_mod, file_path),
                                 t)}})

\* process_plugin with the write of the raw bytes inside the Ok arm of the parse
process_plugin_write_parsed(d, bl, plugin_buf, db_file, db_mod, file_path, t) ==
    IF plugin_buf = EmptyBuf \/ ~parse_plugin(plugin_buf).ok
    THEN [db |-> d, blobs |-> bl, res |-> "ok"]
    ELSE The({IF saved.res # "ok"
              THEN [db |-> saved.db, blobs |-> bl, res |-> saved.res]
              ELSE [db |-> saved.db,
                    blobs |-> write_blob(bl, plugin_path(db_mod, db_file, file_path), plugin_buf),
                    res |-> "ok"] :
              saved \in {persist_parsed_plugin(d, parse_plugin(plugin_buf).plugin, plugin_buf,
                                               db_file, db_mod, file_path, t)}})

\* process_plugin; returns [db, blobs, res]
process_plugin(d, bl, plugin_buf, db_file, db_mod, file_path, t) ==
    IF plugin_buf = EmptyBuf
    THEN [db |-> d, blobs |-> bl, res |-> "ok"]
    ELSE The({IF saved.res # "ok"
              THEN [db |-> saved.db, blobs |-> bl, res |-> saved.res]
              ELSE [db |-> saved.db,
                    blobs |-> write_blob(bl, plugin_path(db_mod, db_file, file_path), plugin_buf),
                    res |-> "ok"] :
              saved \in {IF parse_plugin(plugin_buf).ok
                         THEN persist_parsed_plugin(d, parse_plugin(plugin_buf).plugin, plugin_buf,
                                                    db_file, db_mod, file_path, t)
                         ELSE [db |-> d, res |-> "ok"]}})

(***************************************************************************)
(* Archive extractors.  A downloaded archive is                            *)
(*   [has8, mime, entries, libarchive, unrar, sevenzip]                    *)
(* where entries are [path, is_file, buf] in listing order and the last    *)
(* three fields say how each extraction library fares on it.               *)
(***************************************************************************)
MIME_RAR == "application/vnd.rar"
MIME_ZIP == "application/zip"
MIME_7Z == "application/x-7z-compressed"
MIME_EXE == "application/vnd.microsoft.portable-executable"
MIME_OTHER == "application/gzip"
MIME_NONE == "none"

\* the extension of a file name
ExtOf(name) ==
    CASE name = "a.esp" -> "esp"
      [] name = "b.esp" -> "esp"
      [] name = "c.esp" -> "esp"
      [] name = "d.esp" -> "esp"
      [] name = "m.esm" -> "esm"
      [] name = "l.esl" -> "esl"
      [] name = "U.ESP" -> "ESP"
      [] OTHER -> "txt"

\* path.ends_with(".esp") || path.ends_with(".esm") || path.ends_with(".esl")
ends_with_plugin_ext(path) ==
    path # <<>> /\ ExtOf(path[Len(path)]) \in {"esp", "esm", "esl"}

\* file_path.replace("\\", "/")
replace_backslash(path) == [i \in 1..Len(path) |-> IF path[i] = "\\" THEN "/" ELSE path[i]]

\* for item in items { process_plugin(...).await? }; acc is [db, blobs, res]
RECURSIVE process_plugins(_, _, _, _, _)
process_plugins(acc0, items, db_file, db_mod, t) ==
    IF items = <<>> THEN acc0
    ELSE process_plugins(
             The({IF acc.res # "ok" THEN acc
                  ELSE process_plugin(acc.db, acc.blobs, Head(items).buf, db_file, db_mod,
                                      Head(items).file_path, t) : acc \in {acc0}}),
             Tail(items), db_file, db_mod, t)

\* extractors::compress_tools::extract_with_compress_tools
extract_with_compress_tools(d, bl, archive, db_file, db_mod, t) ==
    LET listed == SelectSeq(archive.entries, LAMBDA e : ends_with_plugin_ext(e.path))
        items == [i \in 1..Len(listed) |->
                    [file_path |-> replace_backslash(listed[i].path), buf |-> listed[i].buf]]
    IN IF archive.libarchive = "list_fails"
       THEN [db |-> d, blobs |-> bl, res |-> "extractor_error"]
       ELSE IF listed # <<>> /\ archive.libarchive = "read_fails"
       THEN [db |-> d, blobs |-> bl, res |-> "extractor_error"]
       ELSE process_plugins([db |-> d, blobs |-> bl, res |-> "ok"], items, db_file, db_mod, t)

\* extractors::unrar::extract_with_unrar
extract_with_unrar(d, bl, archive, db_file, db_mod, checked_metadata, t) ==
    LET listed == SelectSeq(archive.entries,
                            LAMBDA e : e.is_file /\ ends_with_plugin_ext(e.path))
        items == [i \in 1..Len(listed) |-> [file_path |-> listed[i].path, buf |-> listed[i].buf]]
        unable == [db |-> update_unable_to_extract_plugins(d, db_file.id, TRUE),
                   blobs |-> bl, res |-> "ok"]
    IN IF archive.unrar = "open_fails"
       THEN [db |-> d, blobs |-> bl, res |-> "error"]
       ELSE IF archive.unrar = "list_fails"
       THEN IF ~checked_metadata THEN unable ELSE [db |-> d, blobs |-> bl, res |-> "panic"]
       ELSE IF listed = <<>>
       THEN [db |-> d, blobs |-> bl, res |-> "ok"]
       ELSE IF archive.unrar = "extract_fails"
       THEN unable
       ELSE IF archive.unrar = "read_fails"
       THEN [db |-> d, blobs |-> bl, res |-> "error"]
       ELSE process_plugins([db |-> d, blobs |-> bl, res |-> "ok"], items, db_file, db_mod, t)

\* an entry that lives in (or is) a directory below the extraction root
InSubDir(e) == ~e.is_file \/ \E i \in 1..Len(e.path) : e.path[i] \in {"/", "\\"}

\* WalkDir::new(root).contents_first(true).into_iter().filter_entry(pred): a
\* directory is yielded after its contents, fails the predicate, and
\* skip_current_dir then pops its parent, so what follows the first
\* sub-directory of the root is never visited
walk_extracted(entries) ==
    LET dirs == {i \in 1..Len(entries) : InSubDir(entries[i])}
        first == CHOOSE i \in dirs : \A j \in dirs : i <= j
        same(i) == /\ i \in dirs
                   /\ Head(entries[i].path) = Head(entries[first].path)
        last == CHOOSE i \in first..Len(entries) :
                    /\ \A k \in first..i : same(k)
                    /\ (i = Len(entries) \/ ~same(i + 1))
        visited == IF dirs = {} THEN entries ELSE SubSeq(entries, 1, last)
    IN SelectSeq(visited, LAMBDA e : e.is_file /\ ends_with_plugin_ext(e.path))

ExtractedDir == <<"/", "tmp", "/", "extracted", "/">>

\* extractors::seven_zip::extract_with_7zip
extract_with_7zip(d, bl, archive, db_file, db_mod, checked_metadata, t) ==
    LET \* "partial": 7z exits with an error status after it wrote the first entry
        extracted == IF archive.sevenzip = "partial" THEN SubSeq(archive.entries, 1, 1)
                     ELSE archive.entries
        walked == walk_extracted(extracted)
        items == [i \in 1..Len(walked) |->
                    [file_path |-> ExtractedDir \o walked[i].path, buf |-> walked[i].buf]]
        r == process_plugins([db |-> d, blobs |-> bl, res |-> "ok"], items, db_file, db_mod, t)
    IN IF archive.sevenzip # "ok" /\ ~checked_metadata
       THEN [db |-> update_unable_to_extract_plugins(d, db_file.id, TRUE),
             blobs |-> bl, res |-> "ok"]
       \* nothing was extracted: the walk of the missing directory yields an error
       ELSE IF archive.sevenzip = "fails"
       THEN [db |-> d, blobs |-> bl, res |-> "error"]
       \* the temporary directory, and what was written below it, is removed on drop
       ELSE [r EXCEPT !.blobs = {b \in @ : b.at.game # NullStr}]

\* the match on the error of extract_with_compress_tools without the test of the
\* MIME type: every ExtractorError falls back to 7z
falls_back_to_7zip_any_kind(kind, res) == res = "extractor_error"

\* update.rs 295-300: err.downcast_ref::<ExtractorError>().is_some() and the MIME
\* type is application/zip or application/x-7z-compressed
falls_back_to_7zip(kind, res) == res = "extractor_error" /\ kind \in {MIME_ZIP, MIME_7Z}

\* the result r of an extractor, with the extractors that were invoked
Ran(r, extractors) == [db |-> r.db, blobs |-> r.blobs, res |-> r.res, ran |-> extractors]

\* update, the `match kind.mime_type()` block; returns [db, blobs, res, ran] with res
\* "ok" (fall through to the pacing sleep), "skip" (continue) or an error, and ran
\* the extractors that were invoked, in order
extract_archive(d, bl, archive, kind, db_file, db_mod, checked_metadata, t) ==
    IF kind = MIME_RAR
    THEN The({IF r.res \in {"ok", "panic"} THEN Ran(r, <<"unrar">>)
              ELSE Ran(extract_with_7zip(r.db, r.blobs, archive, db_file, db_mod,
                                         checked_metadata, t), <<"unrar", "7zip">>) :
              r \in {extract_with_unrar(d, bl, archive, db_file, db_mod, checked_metadata, t)}})
    ELSE The({IF r.res \in {"ok", "panic"} THEN Ran(r, <<"compress_tools">>)
              ELSE IF falls_back_to_7zip(kind, r.res)
              THEN Ran(extract_with_7zip(r.db, r.blobs, archive, db_file, db_mod,
                                         checked_metadata, t), <<"compress_tools", "7zip">>)
              ELSE IF kind = MIME_EXE
              THEN [db |-> update_unable_to_extract_plugins(r.db, db_file.id, TRUE),
                    blobs |-> r.blobs, res |-> "skip", ran |-> <<"compress_tools">>]
              ELSE [db |-> r.db, blobs |-> r.blobs, res |-> "error",
                    ran |-> <<"compress_tools">>] :
              r \in {extract_with_compress_tools(d, bl, archive, db_file, db_mod, t)}})

(***************************************************************************)
(* The upstream service.                                                   *)
(*   up.listing[include_translations] : the listing pages, each            *)
(*       [mods, pager]; pager is "more" (a pager whose selected link is    *)
(*       not the last), "last" (the last link is selected) or "none" (the  *)
(*       page has no pager)                                                *)
(*   up.beyond : the pager of an empty page requested past the listing     *)
(*   up.mods[m] : [name, last_update, files_status, files]                 *)
(*   a file is [file_id, name, category, preview, link, download, archive] *)
(***************************************************************************)
ModIds == {1, 2}

Entry(path, buf) == [path |-> path, is_file |-> TRUE, buf |-> buf]

ZipA == [has8 |-> TRUE, mime |-> MIME_ZIP, entries |-> <<Entry(<<"a.esp">>, "buf_a")>>,
         libarchive |-> "ok", unrar |-> "ok", sevenzip |-> "ok"]
ZipB == [has8 |-> TRUE, mime |-> MIME_ZIP,
         entries |-> <<Entry(<<"readme.txt">>, EmptyBuf), Entry(<<"b.esp">>, "buf_b")>>,
         libarchive |-> "ok", unrar |-> "ok", sevenzip |-> "ok"]
ZipC == [ZipA EXCEPT !.entries = <<Entry(<<"c.esp">>, "buf_c")>>]
ZipD == [ZipA EXCEPT !.entries = <<Entry(<<"d.esp">>, "buf_d")>>]
ZipDeflate64 == [ZipA EXCEPT !.libarchive = "read_fails"]
RarUnicode == [has8 |-> TRUE, mime |-> MIME_RAR, entries |-> <<Entry(<<"a.esp">>, "buf_a")>>,
               libarchive |-> "ok", unrar |-> "read_fails", sevenzip |-> "ok"]
RarBroken == [RarUnicode EXCEPT !.unrar = "list_fails", !.sevenzip = "fails"]
RarD == [RarUnicode EXCEPT !.entries = <<Entry(<<"d.esp">>, "buf_d")>>, !.unrar = "ok"]
\* a self-extracting archive: an executable that libarchive lists and reads
SelfExtracting == [ZipD EXCEPT !.mime = MIME_EXE]
Installer == [has8 |-> TRUE, mime |-> MIME_EXE, entries |-> <<>>,
              libarchive |-> "list_fails", unrar |-> "list_fails", sevenzip |-> "fails"]
Garbage == [Installer EXCEPT !.mime = MIME_NONE]
Truncated == [Installer EXCEPT !.has8 = FALSE, !.mime = MIME_NONE]
Tarball == [Installer EXCEPT !.mime = MIME_OTHER]

Main == <<"MAIN">>
Archived == <<"ARCHIVED">>

GoodFile(id, archive) ==
    [file_id |-> id, name |-> <<"file">>, category |-> Main, preview |-> "has_plugin",
     link |-> "ok", download |-> "ok", archive |-> archive]

\* the profiles the first file of mod 1 is drawn from
FileProfiles(id) ==
    {GoodFile(id, ZipA),
     [GoodFile(id, ZipA) EXCEPT !.preview = "none", !.download = "fail"],
     [GoodFile(id, ZipA) EXCEPT !.link = "404"],
     [GoodFile(id, ZipA) EXCEPT !.link = "500"],
     [GoodFile(id, ZipA) EXCEPT !.preview = "no_plugin"],
     [GoodFile(id, ZipA) EXCEPT !.category = Archived],
     [GoodFile(id, ZipA) EXCEPT !.category = NullStr],
     [GoodFile(id, ZipDeflate64) EXCEPT !.preview = "error"],
     GoodFile(id, RarUnicode),
     [GoodFile(id, RarBroken) EXCEPT !.preview = "none"],
     [GoodFile(id, Installer) EXCEPT !.preview = "none"],
     [GoodFile(id, Garbage) EXCEPT !.preview = "none"],
     [GoodFile(id, Truncated) EXCEPT !.preview = "none"],
     [GoodFile(id, Tarball) EXCEPT !.preview = "none"]}

UpMod(name, files) ==
    [name |-> name, last_update |-> 0, files_status |-> "ok", files |-> files]

Page(mods, pager) == [mods |-> mods, pager |-> pager]

\* a closed listing: mod 1 (two files) among the originals, mod 2 among the translations
IngestUpstreams ==
    {[listing |-> [t \in BOOLEAN |-> IF t THEN <<Page(<<2>>, "last")>>
                                          ELSE <<Page(<<1>>, "last")>>],
      beyond |-> "last",
      mods |-> [m \in ModIds |-> IF m = 1 THEN UpMod(<<"one">>, <<f, GoodFile(12, ZipA)>>)
                                          ELSE UpMod(<<"two">>, <<GoodFile(21, ZipB)>>)]] : f \in FileProfiles(11)}

\* an open-ended listing: pages past the end are empty and carry no pager
PagingUpstreams ==
    {[listing |-> [t \in BOOLEAN |-> IF t THEN <<>> ELSE <<Page(<<1>>, "more"), Page(<<2>>, p)>>],
      beyond |-> b,
      mods |-> [m \in ModIds |-> UpMod(<<"mod">>, <<>>)]] : p \in {"more", "none"}, b \in {"none", "last"}}

\* a closed listing whose files hold interior cells more than once: the cell of
\* a.esp in two files, and a base-game interior cell twice in c.esp
DedupUpstreams ==
    {[listing |-> [t \in BOOLEAN |-> IF t THEN <<Page(<<2>>, "last")>>
                                          ELSE <<Page(<<1>>, "last")>>],
      beyond |-> "last",
      mods |-> [m \in ModIds |-> IF m = 1 THEN UpMod(<<"one">>, <<GoodFile(11, a), GoodFile(12, ZipA)>>)
                                          ELSE UpMod(<<"two">>, <<GoodFile(21, b)>>)]] :
        a \in {ZipA, ZipC}, b \in {ZipB, ZipC}}

\* a closed listing whose first file holds the plugin with the repeated exterior cell
DbErrorUpstreams ==
    {[listing |-> [t \in BOOLEAN |-> IF t THEN <<Page(<<2>>, "last")>>
                                          ELSE <<Page(<<1>>, "last")>>],
      beyond |-> "last",
      mods |-> [m \in ModIds |-> IF m = 1 THEN UpMod(<<"one">>, <<GoodFile(11, a), GoodFile(12, ZipA)>>)
                                          ELSE UpMod(<<"two">>, <<GoodFile(21, ZipB)>>)]] :
        a \in {ZipD, RarD, SelfExtracting}}

\* RAR archives that unrar cannot list, or cannot extract, and 7z can
RarNoList == [RarUnicode EXCEPT !.unrar = "list_fails"]
RarNoExtract == [RarUnicode EXCEPT !.unrar = "extract_fails"]

\* a self-extracting archive holding a.esp
SfxA == [ZipA EXCEPT !.mime = MIME_EXE]

\* a zip archive written on Windows: the plugin sits below data\
ZipBackslash == [ZipA EXCEPT !.entries = <<Entry(<<"data", "\\", "a.esp">>, "buf_a")>>]

\* a zip archive whose first plugin cannot be parsed
ZipBad == [ZipA EXCEPT !.entries = <<Entry(<<"b.esp">>, "buf_bad"), Entry(<<"a.esp">>, "buf_a")>>]

\* archives whose plugin carries an upper-case extension
ZipUpper == [ZipA EXCEPT !.entries = <<Entry(<<"U.ESP">>, "buf_a")>>]
RarUpper == [RarUnicode EXCEPT !.entries = <<Entry(<<"U.ESP">>, "buf_a")>>, !.unrar = "ok"]

\* a RAR archive that unrar lists and neither unrar nor 7z extracts
RarDead == [RarNoExtract EXCEPT !.sevenzip = "fails"]
\* a zip archive that libarchive cannot list and 7z extracts in part
ZipPartial == [ZipA EXCEPT !.entries = <<Entry(<<"a.esp">>, "buf_a"), Entry(<<"b.esp">>, "buf_b")>>,
                           !.libarchive = "list_fails", !.sevenzip = "partial"]

\* a 7z archive whose entries libarchive cannot decode
SevenZUnreadable == [ZipA EXCEPT !.mime = MIME_7Z, !.libarchive = "read_fails"]

\* the profiles of the first file of mod 1 that exercise the extractors
ExtractProfiles(id) ==
    {GoodFile(id, RarUnicode),
     GoodFile(id, RarDead),
     GoodFile(id, ZipPartial),
     GoodFile(id, Installer),
     GoodFile(id, ZipUpper),
     GoodFile(id, RarUpper),
     GoodFile(id, ZipBad),
     GoodFile(id, ZipBackslash),
     GoodFile(id, SfxA),
     [GoodFile(id, RarNoList) EXCEPT !.preview = "none"],
     GoodFile(id, RarNoExtract)}

\* a closed listing whose first file is drawn from the extractor profiles
ExtractUpstreams ==
    {[listing |-> [t \in BOOLEAN |-> IF t THEN <<Page(<<2>>, "last")>>
                                          ELSE <<Page(<<1>>, "last")>>],
      beyond |-> "last",
      mods |-> [m \in ModIds |-> IF m = 1 THEN UpMod(<<"one">>, <<f, GoodFile(12, ZipA)>>)
                                          ELSE UpMod(<<"two">>, <<GoodFile(21, ZipB)>>)]] :
        f \in ExtractProfiles(11)}

Upstreams == IngestUpstreams \cup PagingUpstreams \cup DedupUpstreams \cup DbErrorUpstreams
                 \cup ExtractUpstreams

\* nexus_scraper::get_mod_list_page: the page the upstream serves
get_mod_list_page(u, page, include_translations) ==
    IF page <= Len(u.listing[include_translations])
    THEN u.listing[include_translations][page]
    ELSE Page(<<>>, u.beyond)

\* ModListResponse::scrape_mods: has_next_page is the absence of a selected last pager link
scrape_mods(u, html) ==
    [mods |-> [i \in 1..Len(html.mods) |->
                  [nexus_mod_id |-> html.mods[i], name |-> u.mods[html.mods[i]].name,
                   last_update_at |-> DateOf(u.mods[html.mods[i]].last_update)]],
     has_next_page |-> html.pager # "last"]

\* nexus_api::files::get followed by FilesResponse::files
files_get(u, nexus_mod_id) ==
    IF u.mods[nexus_mod_id].files_status = "ok"
    THEN [ok |-> TRUE, files |-> u.mods[nexus_mod_id].files]
    ELSE [ok |-> FALSE, files |-> <<>>]

\* the JSON of a content preview: nodes are records, absent keys are absent fields
FileNode(name) == [type |-> "file", name |-> name]
DirNode(name, children) == [type |-> "directory", name |-> name, children |-> children]

\* what the content preview link of a file answers
\*   "has_plugin": a plugin two directories down
\*   "no_plugin":  a text file, a directory named like a plugin, an upper-case extension
PreviewJson(preview) ==
    IF preview = "has_plugin"
    THEN [children |-> <<FileNode("readme.txt"),
                         DirNode("data", <<DirNode("sub", <<FileNode("a.esp")>>)>>)>>]
    ELSE [children |-> <<FileNode("readme.txt"),
                         DirNode("l.esl", <<FileNode("U.ESP")>>)>>]

\* has_plugin without the descent into children
has_plugin_shallow(json) ==
    IF "type" \notin DOMAIN json THEN "err"
    ELSE IF json.type = "file" /\ "name" \notin DOMAIN json THEN "err"
    ELSE IF json.type = "file" /\ ExtOf(json.name) \in {"esp", "esm", "esl"} THEN "true"
    ELSE "false"

\* metadata::has_plugin: "true" is Ok(true), "false" is Ok(false), "err" is Err
RECURSIVE has_plugin(_)
RECURSIVE any_has_plugin(_, _)
has_plugin(json) ==
    IF "type" \notin DOMAIN json THEN "err"
    ELSE IF json.type = "file" /\ "name" \notin DOMAIN json THEN "err"
    ELSE IF json.type = "file" /\ ExtOf(json.name) \in {"esp", "esm", "esl"} THEN "true"
    ELSE IF "children" \notin DOMAIN json THEN "false"
    ELSE any_has_plugin(json.children, 1)

\* for child in children { if has_plugin(child)? { return Ok(true) } } Ok(false)
any_has_plugin(children, i) ==
    IF i > Len(children) THEN "false"
    ELSE The({IF r = "false" THEN any_has_plugin(children, i + 1) ELSE r :
                 r \in {has_plugin(children[i])}})

\* nexus_api::metadata::contains_plugin: "none" is Ok(None), "err" is Err
contains_plugin(api_file) ==
    CASE api_file.preview = "none" -> "none"
      [] api_file.preview = "error" -> "err"
      [] "children" \notin DOMAIN PreviewJson(api_file.preview) -> "false"
      [] OTHER -> any_has_plugin(PreviewJson(api_file.preview).children, 1)

\* nexus_api::download_link::get: a failed attempt (any error status) is retried, and
\* after the third the error returned is a new anyhow!() message, not the reqwest::Error;
\* a body that is not JSON is returned as the reqwest::Error of res.json(), without status
download_link_get(api_file) ==
    CASE api_file.link = "ok" -> [ok |-> TRUE, is_reqwest |-> FALSE, status |-> NullInt]
      [] api_file.link = "bad_json" -> [ok |-> FALSE, is_reqwest |-> TRUE, status |-> NullInt]
      [] OTHER -> [ok |-> FALSE, is_reqwest |-> FALSE, status |-> NullInt]

\* DownloadLinkResponse::download_file
download_file(api_file) == api_file.download = "ok"


(***************************************************************************)
(* The update command (commands::update::update).                          *)
(*   orch.pc is the position of the run:                                   *)
(*     "idle"      before the first run                                    *)
(*     "pass"      at the head of `for include_translations in ..`        *)
(*     "page"      at the head of `while has_next_page`                   *)
(*     "mods"      at the head of `for db_mod in mods`                    *)
(*     "files"     at the head of `for api_file in files`                 *)
(*     "metadata", "link", "download", "sniff", "extract"                  *)
(*                 the steps on one file                                   *)
(*     "done"      update returned Ok(())                                  *)
(*     "aborted"   update returned Err or panicked                         *)
(*     "cancelled" the process was stopped from outside                    *)
(***************************************************************************)
Stopped == {"idle", "done", "aborted", "cancelled"}

NoRow == [id |-> NullInt]
NoFile == [file_id |-> NullInt]

IdleOrch(full, start_page) ==
    [pc |-> "idle", full |-> full, start_page |-> start_page, passes |-> <<>>,
     include_translations |-> FALSE, page |-> start_page, has_next_page |-> TRUE,
     pages_with_no_updates |-> 0, game |-> NoRow, mods |-> <<>>, db_mod |-> NoRow,
     files |-> <<>>, processed_file_ids |-> {}, api_file |-> NoFile, db_file |-> NoRow,
     checked_metadata |-> FALSE, kind |-> MIME_NONE]

\* the run ends early: its locals are dropped
Ended(o, pc) == [IdleOrch(o.full, o.start_page) EXCEPT !.pc = pc]

\* `continue` in the file loop: the file's locals are dropped
NextFile(o) ==
    [o EXCEPT !.pc = "files", !.api_file = NoFile, !.db_file = NoRow,
              !.checked_metadata = FALSE, !.kind = MIME_NONE]

\* what the history variable records about the run in progress
NewRun(h, d, o) ==
    [h EXCEPT !.runs = @ + 1,
              !.prev_clean = (o.pc = "done" /\ ~h.changed),
              !.prev_done = (o.pc = "done"),
              !.changed = FALSE, !.seeded = FALSE, !.deduped = FALSE, !.wait_owed = FALSE,
              !.interrupted = (o.pc = "cancelled"),
              !.db_at_start = d,
              !.prev_dl_skipped = h.dl_skipped, !.dl_skipped = {},
              !.marked = {}, !.attempted = {}, !.enumerated = {}, !.upserted = {}]

InitHist ==
    [runs |-> 0, events |-> 0, backfills |-> 0, changed |-> FALSE, seeded |-> FALSE, prev_clean |-> FALSE,
     prev_done |-> FALSE, interrupted |-> FALSE, ever_changed |-> FALSE,
     ever_cancelled |-> FALSE, ever_aborted |-> FALSE,
     db_at_start |-> EmptyDb, dl_skipped |-> {}, prev_dl_skipped |-> {}, marked |-> {},
     attempted |-> {}, enumerated |-> {}, upserted |-> {},
     dedups |-> 0, deduped |-> FALSE, before_dedup |-> EmptyDb,
     \* the wait of the last download_link response has not been slept yet
     wait_owed |-> FALSE,
     \* the extractors invoked on the last archive that reached the extraction
     ran |-> <<>>,
     \* the cells a stopped deduplication had chosen for the group it was working on
     abandoned |-> {},
     \* the mods a batched_insert returned for which update_last_updated_files_at has
     \* not been reached since
     pending |-> {}]

Init ==
    /\ db = EmptyDb
    /\ blobs = {}
    /\ up \in IngestUpstreams
    /\ now = 0
    /\ orch = IdleOrch(FALSE, 1)
    /\ hist = InitHist

\* the update command is started
StartRun ==
    /\ orch.pc \in Stopped
    /\ hist.runs < MaxRuns
    /\ orch' = [IdleOrch(orch.full, orch.start_page) EXCEPT !.pc = "pass",
                                                            !.passes = <<FALSE, TRUE>>]
    /\ hist' = NewRun(hist, db, orch)
    /\ UNCHANGED <<db, blobs, up, now>>

\* update.rs 28-39: the next pass of `for include_translations in [false, true]`
PassBegin ==
    /\ orch.pc = "pass"
    /\ LET r == game_insert(db, GAME_NAME, GAME_ID, now) IN
       /\ db' = r.db
       /\ orch' = [orch EXCEPT !.pc = "page", !.include_translations = Head(orch.passes),
                               !.passes = Tail(@), !.page = orch.start_page,
                               !.has_next_page = TRUE, !.pages_with_no_updates = 0,
                               !.game = r.row]
    /\ UNCHANGED <<blobs, up, now, hist>>

\* the early stop of update.rs 42 without the test of `full`
no_updates_limit_reached_any(o) == o.pages_with_no_updates >= NO_UPDATE_PAGES

\* update.rs 42: the early stop of a non-full run
no_updates_limit_reached(o) == ~o.full /\ o.pages_with_no_updates >= NO_UPDATE_PAGES

\* the filter of update.rs 69-107 with >= in the place of >
mods_to_create_or_update_ge(processed_mods, scraped_mods, game, include_translations) ==
    LET keep(scraped_mod) ==
            ~\E processed_mod \in processed_mods :
                /\ processed_mod.nexus_mod_id = scraped_mod.nexus_mod_id
                /\ processed_mod.last_updated_files_at >= AtMidnight(scraped_mod.last_update_at)
        kept == SelectSeq(scraped_mods, keep)
    IN [i \in 1..Len(kept) |->
           [name |-> kept[i].name, nexus_mod_id |-> kept[i].nexus_mod_id,
            game_id |-> game.id, is_translation |-> include_translations,
            last_update_at |-> AtMidnight(kept[i].last_update_at)]]

\* update.rs 69-107: the scraped mods that are not skipped, as UnsavedMod
mods_to_create_or_update(processed_mods, scraped_mods, game, include_translations) ==
    LET keep(scraped_mod) ==
            ~\E processed_mod \in processed_mods :
                /\ processed_mod.nexus_mod_id = scraped_mod.nexus_mod_id
                /\ processed_mod.last_updated_files_at > AtMidnight(scraped_mod.last_update_at)
        kept == SelectSeq(scraped_mods, keep)
    IN [i \in 1..Len(kept) |->
           [name |-> kept[i].name, nexus_mod_id |-> kept[i].nexus_mod_id,
            game_id |-> game.id, is_translation |-> include_translations,
            last_update_at |-> AtMidnight(kept[i].last_update_at)]]

\* update.rs 41-115: one listing page is fetched, filtered and upserted
PageFetch ==
    /\ orch.pc = "page"
    /\ orch.has_next_page
    /\ ~no_updates_limit_reached(orch)
    /\ orch.page <= MaxPage
    /\ LET scraped == scrape_mods(up, get_mod_list_page(up, orch.page, orch.include_translations))
           processed_mods ==
               bulk_get_last_updated_by_nexus_mod_ids(
                   db, orch.game.id, {scraped.mods[i].nexus_mod_id : i \in 1..Len(scraped.mods)})
           r == game_mod_batched_insert(
                    db, mods_to_create_or_update(processed_mods, scraped.mods, orch.game,
                                                 orch.include_translations), now)
       IN /\ db' = r.db
          /\ orch' = [orch EXCEPT !.pc = "mods", !.has_next_page = scraped.has_next_page,
                                  !.pages_with_no_updates = IF r.rows = <<>> THEN @ + 1 ELSE 0,
                                  !.mods = r.rows]
          /\ hist' = [hist EXCEPT !.upserted = {r.rows[i].nexus_mod_id : i \in 1..Len(r.rows)},
                                  !.enumerated = {},
                                  !.pending = @ \cup {r.rows[i].nexus_mod_id : i \in 1..Len(r.rows)}]
    /\ UNCHANGED <<blobs, up, now>>

\* update.rs 41-45, 343: the page loop ends
PassEnd ==
    /\ orch.pc = "page"
    /\ ~orch.has_next_page \/ no_updates_limit_reached(orch)
    /\ orch' = [orch EXCEPT !.pc = IF orch.passes = <<>> THEN "done" ELSE "pass"]
    /\ UNCHANGED <<db, blobs, up, now, hist>>


\* the filter without its ARCHIVED arm
listed_files_keep_archived(files) ==
    SelectSeq(files, LAMBDA file : file.category # NullStr)

\* update.rs 126-141: files with no category or archived are left out
listed_files(files) ==
    SelectSeq(files, LAMBDA file : file.category # NullStr /\ file.category # Archived)

FileKey(o) == [nexus_mod_id |-> o.db_mod.nexus_mod_id, nexus_file_id |-> o.api_file.file_id]

\* update.rs 117-147: the next mod of the page; its files are requested
ModBegin ==
    /\ orch.pc = "mods"
    /\ orch.mods # <<>>
    /\ LET db_mod == Head(orch.mods)
           files_resp == files_get(up, db_mod.nexus_mod_id)
       IN IF ~files_resp.ok
          THEN /\ orch' = Ended(orch, "aborted")
               /\ hist' = [hist EXCEPT !.ever_aborted = TRUE]
          ELSE /\ orch' = [orch EXCEPT
                              !.pc = "files", !.mods = Tail(@), !.db_mod = db_mod,
                              !.files = listed_files(files_resp.files),
                              !.processed_file_ids =
                                  get_processed_nexus_file_ids_by_mod_id(db, db_mod.id)]
               /\ hist' = [hist EXCEPT !.enumerated = @ \cup {db_mod.nexus_mod_id}]
    /\ UNCHANGED <<db, blobs, up, now>>

\* update.rs 339-341: all mods of the page are done
PageEnd ==
    /\ orch.pc = "mods"
    /\ orch.mods = <<>>
    /\ orch' = [orch EXCEPT !.pc = "page", !.page = @ + 1]
    /\ UNCHANGED <<db, blobs, up, now, hist>>

\* update.rs 149-172: the next file of the mod is skipped as processed, or upserted
FileBegin ==
    /\ orch.pc = "files"
    /\ orch.files # <<>>
    /\ LET api_file == Head(orch.files) IN
       IF api_file.file_id \in orch.processed_file_ids
       THEN /\ orch' = [orch EXCEPT !.files = Tail(@)]
            /\ UNCHANGED <<db, hist>>
       ELSE LET r == file_insert(db, [name |-> api_file.name, nexus_file_id |-> api_file.file_id,
                                      mod_id |-> orch.db_mod.id,
                                      category |-> api_file.category], now)
            IN /\ db' = r.db
               /\ orch' = [orch EXCEPT !.pc = "metadata", !.files = Tail(@),
                                       !.api_file = api_file, !.db_file = r.row]
               /\ hist' = [hist EXCEPT !.attempted = @ \cup
                              {[nexus_mod_id |-> orch.db_mod.nexus_mod_id,
                                nexus_file_id |-> api_file.file_id]}]
    /\ UNCHANGED <<blobs, up, now>>

\* update.rs 336: the file loop of the mod is over
ModEnd ==
    /\ orch.pc = "files"
    /\ orch.files = <<>>
    /\ db' = update_last_updated_files_at(db, orch.db_mod.id, now)
    /\ orch' = [orch EXCEPT !.pc = "mods", !.db_mod = NoRow, !.processed_file_ids = {}]
    /\ hist' = [hist EXCEPT !.marked = @ \cup {orch.db_mod.nexus_mod_id},
                            !.pending = @ \ {orch.db_mod.nexus_mod_id}]
    /\ UNCHANGED <<blobs, up, now>>

\* update.rs 174-193: the content preview says whether the archive holds a plugin
FileMetadata ==
    /\ orch.pc = "metadata"
    /\ LET found == contains_plugin(orch.api_file) IN
       IF found = "false"
       THEN /\ db' = update_has_plugin(db, orch.db_file.id, FALSE)
            /\ orch' = NextFile(orch)
       ELSE /\ orch' = [orch EXCEPT !.pc = "link", !.checked_metadata = (found = "true")]
            /\ UNCHANGED db
    /\ UNCHANGED <<blobs, up, now, hist>>

\* update.rs 197-216: the download link is requested
FileLink ==
    /\ orch.pc = "link"
    /\ LET download_link_resp == download_link_get(orch.api_file) IN
       IF /\ ~download_link_resp.ok
          /\ download_link_resp.is_reqwest
          /\ download_link_resp.status = 404
       THEN /\ db' = update_has_download_link(db, orch.db_file.id, FALSE)
            /\ orch' = NextFile(orch)
            /\ UNCHANGED hist
       ELSE IF ~download_link_resp.ok
       THEN /\ orch' = Ended(orch, "aborted")
            /\ hist' = [hist EXCEPT !.ever_aborted = TRUE]
            /\ UNCHANGED db
       ELSE /\ orch' = [orch EXCEPT !.pc = "download"]
            /\ hist' = [hist EXCEPT !.wait_owed = TRUE]
            /\ UNCHANGED db
    /\ UNCHANGED <<blobs, up, now>>

\* update.rs 218-228: the archive is downloaded
FileDownload ==
    /\ orch.pc = "download"
    /\ IF download_file(orch.api_file)
       THEN /\ db' = update_downloaded_at(db, orch.db_file.id, now)
            /\ orch' = [orch EXCEPT !.pc = "sniff"]
            /\ UNCHANGED hist
       ELSE /\ orch' = NextFile(orch)
            /\ hist' = [hist EXCEPT !.dl_skipped = @ \cup {FileKey(orch)}]
            /\ UNCHANGED db
    /\ UNCHANGED <<blobs, up, now>>

\* update.rs 230-248: the first eight bytes give the archive type
FileSniff ==
    /\ orch.pc = "sniff"
    /\ IF ~orch.api_file.archive.has8 \/ orch.api_file.archive.mime = MIME_NONE
       THEN /\ db' = update_unable_to_extract_plugins(db, orch.db_file.id, TRUE)
            /\ orch' = NextFile(orch)
       ELSE /\ orch' = [orch EXCEPT !.pc = "extract", !.kind = orch.api_file.archive.mime]
            /\ UNCHANGED db
    /\ UNCHANGED <<blobs, up, now, hist>>

\* update.rs 250-333: the archive is extracted and its plugins are processed
FileExtract ==
    /\ orch.pc = "extract"
    /\ \E r \in {extract_archive(db, blobs, orch.api_file.archive, orch.kind, orch.db_file,
                                  orch.db_mod, orch.checked_metadata, now)} :
          /\ db' = r.db
          /\ blobs' = r.blobs
          /\ IF r.res = "ok"
             \* update.rs 331-332: sleep(download_link_resp.wait)
             THEN /\ orch' = NextFile(orch)
                  /\ hist' = [hist EXCEPT !.wait_owed = FALSE, !.ran = r.ran]
             ELSE IF r.res = "skip"
             THEN orch' = NextFile(orch) /\ hist' = [hist EXCEPT !.ran = r.ran]
             ELSE /\ orch' = Ended(orch, "aborted")
                  /\ hist' = [hist EXCEPT !.ever_aborted = TRUE, !.ran = r.ran]
    /\ UNCHANGED <<up, now>>


(***************************************************************************)
(* The environment: the process is stopped, time passes, the upstream      *)
(* changes, the base-game backfill is run.                                 *)
(***************************************************************************)
\* the process is killed between two steps of a run
Cancel ==
    /\ orch.pc \notin Stopped
    /\ hist.events < MaxEvents
    /\ orch' = Ended(orch, "cancelled")
    /\ hist' = [hist EXCEPT !.events = @ + 1, !.ever_cancelled = TRUE]
    /\ UNCHANGED <<db, blobs, up, now>>

\* the environment is observed to move between runs: a run is short against the
\* clock and against the upstream's changes
Quiet == orch.pc \in Stopped

\* time passes
Tick ==
    /\ hist.events < MaxEvents
    /\ Quiet
    /\ now' = now + 1
    /\ hist' = [hist EXCEPT !.events = @ + 1]
    /\ UNCHANGED <<db, blobs, up, orch>>

Changed(h) == [h EXCEPT !.events = @ + 1, !.changed = TRUE, !.ever_changed = TRUE]

\* the author updates a mod: its listing entry shows the new date
UpstreamUpdate ==
    /\ hist.events < MaxEvents
    /\ Quiet
    /\ \E m \in ModIds :
          /\ up.mods[m].last_update < now
          /\ up' = [up EXCEPT !.mods[m].last_update = now]
    /\ hist' = Changed(hist)
    /\ UNCHANGED <<db, blobs, now, orch>>

\* a file whose download failed becomes downloadable
DownloadRecovers ==
    /\ hist.events < MaxEvents
    /\ Quiet
    /\ \E m \in ModIds : \E i \in 1..Len(up.mods[m].files) :
          /\ up.mods[m].files[i].download = "fail"
          /\ up' = [up EXCEPT !.mods[m].files[i].download = "ok"]
    /\ hist' = Changed(hist)
    /\ UNCHANGED <<db, blobs, now, orch>>

\* commands::backfills::is_base_game::backfill_is_base_game; returns [db, res]
backfill_is_base_game(d, plugin, t) ==
    LET file_name == SkyrimEsm
        masters == plugin.header.masters
        key(form_id) == get_local_form_id_and_master(form_id, masters, file_name)
        base_worlds == [i \in 1..Len(plugin.worlds) |-> key(plugin.worlds[i].form_id)]
        found(db_worlds, cell) ==
            {i \in 1..Len(db_worlds) :
                /\ db_worlds[i].form_id = key(cell.world_form_id).form_id
                /\ db_worlds[i].master = key(cell.world_form_id).master}
        first(S) == CHOOSE i \in S : \A j \in S : i <= j
        missing_world(db_worlds) ==
            \E i \in 1..Len(plugin.cells) :
                /\ plugin.cells[i].world_form_id # NullInt
                /\ found(db_worlds, plugin.cells[i]) = {}
        base_cells(db_worlds) ==
            [i \in 1..Len(plugin.cells) |->
                [form_id |-> key(plugin.cells[i].form_id).form_id,
                 master |-> key(plugin.cells[i].form_id).master,
                 x |-> plugin.cells[i].x, y |-> plugin.cells[i].y,
                 world_id |-> IF plugin.cells[i].world_form_id # NullInt
                              THEN db_worlds[first(found(db_worlds, plugin.cells[i]))].id
                              ELSE NullInt,
                 is_persistent |-> plugin.cells[i].is_persistent,
                 is_base_game |-> TRUE]]
    IN The({IF missing_world(w.rows)
            THEN [db |-> w.db, res |-> "panic"]
            ELSE [db |-> cell_batched_insert(w.db, base_cells(w.rows), TRUE, t).db, res |-> "ok"] :
            w \in {world_batched_insert(d, base_worlds, t)}})

\* the backfill command is run while no update is running
BackfillIsBaseGame ==
    /\ orch.pc \in Stopped
    /\ hist.events < MaxEvents
    /\ db' = backfill_is_base_game(db, BasePlugin, now).db
    /\ hist' = [hist EXCEPT !.events = @ + 1, !.backfills = @ + 1, !.seeded = TRUE,
                            !.deduped = FALSE]
    /\ UNCHANGED <<blobs, up, now, orch>>

(***************************************************************************)
(* commands::backfills::deduplicate_interior_cells.                        *)
(***************************************************************************)
\* SELECT json_agg(..), form_id, master FROM cells WHERE world_id IS NULL
\* GROUP BY (form_id, master) HAVING COUNT(*) > 1: every group, as the set of its cells
duplicate_groups(d) ==
    {g \in {{c \in d.cells : c.world_id = NullInt /\ c.form_id = k.form_id /\ c.master = k.master} :
               k \in {c \in d.cells : c.world_id = NullInt}} :
        Cardinality(g) > 1}

\* the subsets of S that leave k of its elements out
RECURSIVE Leaving(_, _)
Leaving(S, k) ==
    IF k = 0 THEN {S} ELSE UNION {Leaving(S \ {x}, k - 1) : x \in S}

\* the query without its LIMIT
duplicates_unlimited(d) == {duplicate_groups(d)}

\* ... LIMIT PAGE_SIZE: the pages the query can answer, any PAGE_SIZE of the groups
\* when there are more
duplicates(d) ==
    The({IF Cardinality(groups) <= PAGE_SIZE
         THEN {groups}
         ELSE Leaving(groups, Cardinality(groups) - PAGE_SIZE) :
         groups \in {duplicate_groups(d)}})

\* the first cell of the group in the order of json_agg, whatever its is_base_game
chosen_cell_first(group) == {c.id : c \in group}

\* ids.iter().find(is_base_game) or else the first: json_agg gives no order, so
\* any base-game cell of the group, or any cell when there is none
chosen_cell(group) ==
    IF \E c \in group : c.is_base_game
    THEN {c.id : c \in {x \in group : x.is_base_game}}
    ELSE {c.id : c \in group}

\* the first DELETE keeping the greatest id of each plugin
plugin_cells_delete_keep_max(d, duplicate_ids) ==
    [d EXCEPT !.plugin_cells =
        {r \in @ : r.cell_id \in duplicate_ids =>
            \A q \in d.plugin_cells :
                (q.cell_id \in duplicate_ids /\ q.plugin_id = r.plugin_id) => q.id <= r.id}]

\* DELETE FROM plugin_cells WHERE id NOT IN (SELECT MIN(id) .. WHERE cell_id = ANY($1)
\* GROUP BY plugin_id) AND cell_id = ANY($1)
plugin_cells_delete(d, duplicate_ids) ==
    [d EXCEPT !.plugin_cells =
        {r \in @ : r.cell_id \in duplicate_ids =>
            \A q \in d.plugin_cells :
                (q.cell_id \in duplicate_ids /\ q.plugin_id = r.plugin_id) => r.id <= q.id}]

\* UPDATE plugin_cells SET cell_id = $1, updated_at = now() WHERE cell_id = ANY($2)
plugin_cells_repoint(d, chosen, duplicate_ids, t) ==
    [d EXCEPT !.plugin_cells =
        {IF r.cell_id \in duplicate_ids
         THEN [r EXCEPT !.cell_id = chosen, !.updated_at = t] ELSE r : r \in @}]

\* the DELETE without `id != $1`: the chosen cell goes with the others
cells_delete_with_chosen(d, chosen, duplicate_ids) ==
    [d EXCEPT !.cells = {c \in @ : c.id \notin duplicate_ids}]

\* DELETE FROM cells WHERE id != $1 AND id = ANY($2)
cells_delete(d, chosen, duplicate_ids) ==
    [d EXCEPT !.cells = {c \in @ : c.id = chosen \/ c.id \notin duplicate_ids}]

\* the body of `for duplicate_cell in duplicates`
dedup_group(d, group, chosen, t) ==
    cells_delete(
        plugin_cells_repoint(plugin_cells_delete(d, {c.id : c \in group}),
                             chosen, {c.id : c \in group}, t),
        chosen, {c.id : c \in group})

\* the `for` loop over one page; the databases it can end in
RECURSIVE dedup_page(_, _, _)
dedup_page(d, page, t) ==
    IF page = {} THEN {d}
    ELSE UNION {UNION {dedup_page(dedup_group(d, g, chosen, t), page \ {g}, t) :
                          chosen \in chosen_cell(g)} :
                   g \in {CHOOSE g \in page : TRUE}}

\* the routine without its `loop`, on a page of one group
deduplicate_one_group(d, t) ==
    IF duplicate_groups(d) = {} THEN {d}
    ELSE dedup_page(d, {CHOOSE g \in duplicate_groups(d) : TRUE}, t)

\* deduplicate_interior_cells: pages are fetched and processed until one is empty;
\* the databases the routine can end in
RECURSIVE deduplicate_interior_cells(_, _)
deduplicate_interior_cells(d, t) ==
    IF duplicate_groups(d) = {} THEN {d}
    ELSE UNION {UNION {deduplicate_interior_cells(r, t) : r \in dedup_page(d, page, t)} :
                   page \in duplicates(d)}

\* the deduplication command is run while no update is running
DeduplicateInteriorCells ==
    /\ orch.pc \in Stopped
    /\ hist.events < MaxEvents
    /\ db' \in deduplicate_interior_cells(db, now)
    /\ hist' = [hist EXCEPT !.events = @ + 1, !.dedups = @ + 1, !.deduped = TRUE,
                            !.before_dedup = db]
    /\ UNCHANGED <<blobs, up, now, orch>>

Next ==
    \/ StartRun
    \/ PassBegin
    \/ PageFetch
    \/ PassEnd
    \/ ModBegin
    \/ PageEnd
    \/ FileBegin
    \/ ModEnd
    \/ FileMetadata
    \/ FileLink
    \/ FileDownload
    \/ FileSniff
    \/ FileExtract
    \/ Tick
    \/ UpstreamUpdate
    \/ DownloadRecovers
    \/ BackfillIsBaseGame

\* runs of the update command on a changing upstream, with the backfill
Spec == Init /\ [][Next]_vars

NextCancel ==
    \/ StartRun
    \/ PassBegin
    \/ PageFetch
    \/ PassEnd
    \/ ModBegin
    \/ PageEnd
    \/ FileBegin
    \/ ModEnd
    \/ FileMetadata
    \/ FileLink
    \/ FileDownload
    \/ FileSniff
    \/ FileExtract
    \/ Tick
    \/ Cancel

\* runs of the update command that may be killed, on an upstream that does not change
SpecCancel == Init /\ [][NextCancel]_vars

InitDedup ==
    /\ db = EmptyDb
    /\ blobs = {}
    /\ up \in DedupUpstreams
    /\ now = 0
    /\ orch = IdleOrch(FALSE, 1)
    /\ hist = InitHist

NextDedup ==
    \/ StartRun
    \/ PassBegin
    \/ PageFetch
    \/ PassEnd
    \/ ModBegin
    \/ PageEnd
    \/ FileBegin
    \/ ModEnd
    \/ FileMetadata
    \/ FileLink
    \/ FileDownload
    \/ FileSniff
    \/ FileExtract
    \/ Tick
    \/ BackfillIsBaseGame
    \/ DeduplicateInteriorCells

\* runs of the update command, the backfill and the deduplication, one after another
SpecDedup == InitDedup /\ [][NextDedup]_vars

InitDbError ==
    /\ db = EmptyDb
    /\ blobs = {}
    /\ up \in DbErrorUpstreams
    /\ now = 0
    /\ orch = IdleOrch(FALSE, 1)
    /\ hist = InitHist

NextDbError ==
    \/ StartRun
    \/ PassBegin
    \/ PageFetch
    \/ PassEnd
    \/ ModBegin
    \/ PageEnd
    \/ FileBegin
    \/ ModEnd
    \/ FileMetadata
    \/ FileLink
    \/ FileDownload
    \/ FileSniff
    \/ FileExtract
    \/ Tick
    \/ BackfillIsBaseGame

\* runs of the update command on archives whose plugin makes a cell statement fail
SpecDbError == InitDbError /\ [][NextDbError]_vars

InitExtract ==
    /\ db = EmptyDb
    /\ blobs = {}
    /\ up \in ExtractUpstreams
    /\ now = 0
    /\ orch = IdleOrch(FALSE, 1)
    /\ hist = InitHist

\* runs of the update command on archives that exercise each extractor
SpecExtract == InitExtract /\ [][NextDbError]_vars

InitPaging ==
    /\ db = EmptyDb
    /\ blobs = {}
    /\ up \in PagingUpstreams
    /\ now = 0
    /\ \E full \in BOOLEAN : orch = IdleOrch(full, 1)
    /\ hist = InitHist

NextPaging ==
    \/ StartRun
    \/ PassBegin
    \/ PageFetch
    \/ PassEnd
    \/ ModBegin
    \/ PageEnd
    \/ ModEnd
    \/ Tick
    \/ UpstreamUpdate

\* runs of the update command over a long listing of mods
SpecPaging == InitPaging /\ [][NextPaging]_vars

(***************************************************************************)
(* Properties.  Vocabulary shared by the properties below.                 *)
(***************************************************************************)
\* the step that fetches a listing page: what it scraped, and what it upserted
PageStep == orch.pc = "page" /\ orch'.pc = "mods"
ScrapedMods == scrape_mods(up, get_mod_list_page(up, orch.page, orch.include_translations)).mods
SeqIds(rows) == {rows[i].nexus_mod_id : i \in 1..Len(rows)}

\* the per-mod skip rule, in the words of the specification: a non-null
\* last_updated_files_at is stored for (game, nexus_mod_id) and is strictly greater
\* than the scraped date at 00:00:00
SkippedByRule(scraped_mod) ==
    \E m \in db.mods :
        /\ m.game_id = orch.game.id
        /\ m.nexus_mod_id = scraped_mod.nexus_mod_id
        /\ m.last_updated_files_at # NullInt
        /\ m.last_updated_files_at > AtMidnight(scraped_mod.last_update_at)

\* the File row of a file of the upstream
FileRows(d, key) ==
    {f \in d.files : /\ f.nexus_file_id = key.nexus_file_id
                     /\ \E m \in d.mods : m.id = f.mod_id /\ m.nexus_mod_id = key.nexus_mod_id}

(***************************************************************************)
(* C1.  last_updated_files_at is written for a mod only in a run in which  *)
(* every listed file of the mod was processed to completion: no mod is     *)
(* marked in a run that skipped one of its files because the download      *)
(* failed.                                                                 *)
(***************************************************************************)
C1_MarkedOnlyWhenNoDownloadFailed ==
    \A m \in hist.marked : \A k \in hist.dl_skipped : k.nexus_mod_id # m

(***************************************************************************)
(* C2.  When the download-link request of a file answers 404, the step     *)
(* sets the file's has_download_link to false, persists no Plugin row for  *)
(* it, does not end the run and goes on to the next file of the mod.       *)
(***************************************************************************)
C2_NotFoundSkipsFile ==
    [][(orch.pc = "link" /\ orch.api_file.link = "404")
          => /\ orch'.pc = "files"
             /\ \A f \in db'.files : f.id = orch.db_file.id => ~f.has_download_link
             /\ \A p \in db'.plugins : p.file_id # orch.db_file.id]_vars

(***************************************************************************)
(* C3.  No step of ordinary ingestion changes any column of a Cell row     *)
(* whose is_base_game is true; only the backfill overwrites such rows.     *)
(***************************************************************************)
C3_BaseGameCellsUntouched ==
    [][hist'.backfills = hist.backfills
          => \A c \in db.cells : c.is_base_game => c \in db'.cells]_vars

\* a plugin that redefines a base-game cell was ingested after the backfill
C3_Witness ==
    \E c \in db.cells : \E p \in db.plugins :
        /\ c.is_base_game
        /\ p.hash = seahash("buf_a")
        /\ p.created_at > c.updated_at


(***************************************************************************)
(* C4.  After process_plugin succeeded on a parsed plugin, every cell      *)
(* record of the plugin has a PluginCell row of that plugin whose Cell has *)
(* the (form_id, master, world_id) decoded from the record and whose       *)
(* editor_id is the record's, also when cells of the plugin collide with   *)
(* base-game cells.                                                        *)
(***************************************************************************)
\* the parsed contents of a persisted plugin, known by the hash of its bytes
ParsedOf(p) == IF p.hash = seahash("buf_a") THEN PluginA ELSE PluginB

\* the world_id a cell record decodes to: the row of its world, NULL for an interior
DecodedWorldIds(p, cell) ==
    IF cell.world_form_id = NullInt THEN {NullInt}
    ELSE {w.id : w \in {r \in db.worlds :
              /\ r.form_id = get_local_form_id_and_master(
                                 cell.world_form_id, p.masters, p.file_name).form_id
              /\ r.master = get_local_form_id_and_master(
                                cell.world_form_id, p.masters, p.file_name).master}}

C4_EveryCellRecordLinked ==
    \A p \in db.plugins :
        \A i \in 1..Len(ParsedOf(p).cells) :
            \E pc \in db.plugin_cells : \E c \in db.cells :
                /\ pc.plugin_id = p.id
                /\ pc.cell_id = c.id
                /\ pc.editor_id = ParsedOf(p).cells[i].editor_id
                /\ c.form_id = get_local_form_id_and_master(
                                   ParsedOf(p).cells[i].form_id, p.masters, p.file_name).form_id
                /\ c.master = get_local_form_id_and_master(
                                  ParsedOf(p).cells[i].form_id, p.masters, p.file_name).master
                /\ c.world_id \in DecodedWorldIds(p, ParsedOf(p).cells[i])

(***************************************************************************)
(* C5.  A second run of update against an unchanged upstream creates no    *)
(* row in any table and changes no column other than a timestamp of an     *)
(* existing row, and no updated_at decreases.                              *)
(***************************************************************************)
Tables == {"games", "mods", "files", "plugins", "worlds", "cells", "plugin_worlds", "plugin_cells"}

\* a row without its timestamps; of a nullable timestamp, whether it is set
NoTimestamps(table, r) ==
    CASE table = "mods" ->
           [id |-> r.id, nexus_mod_id |-> r.nexus_mod_id, game_id |-> r.game_id,
            name |-> r.name, is_translation |-> r.is_translation,
            last_update_at |-> r.last_update_at,
            files_done |-> (r.last_updated_files_at # NullInt)]
      [] table = "files" ->
           [id |-> r.id, nexus_file_id |-> r.nexus_file_id, mod_id |-> r.mod_id,
            name |-> r.name, category |-> r.category,
            has_download_link |-> r.has_download_link,
            downloaded |-> (r.downloaded_at # NullInt), has_plugin |-> r.has_plugin,
            unable_to_extract_plugins |-> r.unable_to_extract_plugins]
      [] OTHER -> [k \in (DOMAIN r) \ {"created_at", "updated_at"} |-> r[k]]

Rows(d, table) == {NoTimestamps(table, r) : r \in d[table]}

C5_SecondRunChangesNothing ==
    (orch.pc = "done" /\ hist.prev_clean /\ ~hist.changed /\ ~hist.seeded)
        => \A table \in Tables :
              /\ Rows(db, table) = Rows(hist.db_at_start, table)
              /\ \A r \in hist.db_at_start[table] :
                    \E q \in db[table] : q.id = r.id /\ q.updated_at >= r.updated_at

\* a second run has re-upserted a mod whose files it found processed
C5_Witness ==
    /\ orch.pc = "done" /\ hist.prev_clean /\ ~hist.changed /\ ~hist.seeded
    /\ db.plugins # {}
    /\ \E m \in db.mods : m.updated_at > m.created_at


(***************************************************************************)
(* C6.  When a run is killed at any point and update is then run again to  *)
(* completion against the same upstream, the rows are those of one         *)
(* uninterrupted run: in particular the plugins of every listed file that  *)
(* downloads and extracts are persisted.                                   *)
(***************************************************************************)
\* a listed file that an uninterrupted run downloads and extracts with libarchive
Extracts(file) ==
    /\ file.category # NullStr /\ file.category # Archived
    /\ file.preview # "no_plugin" /\ file.link = "ok" /\ file.download = "ok"
    /\ file.archive.has8 /\ file.archive.mime = MIME_ZIP /\ file.archive.libarchive = "ok"

\* the mods the listing shows
ListedMods ==
    {up.listing[t][i].mods[j] :
        t \in {x \in BOOLEAN : up.listing[x] # <<>>},
        i \in {1}, j \in {1}}

\* (mod, file, path) of the plugins an uninterrupted run persists
ExpectedPlugins ==
    {k \in [nexus_mod_id : ListedMods, nexus_file_id : {11, 12, 21},
            file_path : {<<"a.esp">>, <<"b.esp">>}] :
        \E i \in 1..Len(up.mods[k.nexus_mod_id].files) :
            LET file == up.mods[k.nexus_mod_id].files[i] IN
            /\ file.file_id = k.nexus_file_id
            /\ Extracts(file)
            /\ \E e \in Range(file.archive.entries) :
                  /\ e.path = k.file_path
                  /\ ends_with_plugin_ext(e.path)
                  /\ parse_plugin(e.buf).ok}

\* (mod, file, path) of the Plugin rows
PersistedPlugins ==
    {[nexus_mod_id |-> m.nexus_mod_id, nexus_file_id |-> f.nexus_file_id,
      file_path |-> p.file_path] :
        <<p, f, m>> \in {t \in db.plugins \X db.files \X db.mods :
                            t[1].file_id = t[2].id /\ t[2].mod_id = t[3].id}}

\* what the comparison is made with: an uninterrupted first run persists them all
UninterruptedRunPersistsAll ==
    (orch.pc = "done" /\ hist.runs = 1) => ExpectedPlugins \subseteq PersistedPlugins

C6_RerunCompletesKilledRun ==
    (orch.pc = "done" /\ hist.interrupted) => ExpectedPlugins \subseteq PersistedPlugins


(***************************************************************************)
(* C7.  A scraped mod is skipped exactly when a non-null                   *)
(* last_updated_files_at is stored for it and is strictly greater than the *)
(* scraped date at 00:00:00; every other scraped mod is upserted, and the  *)
(* files of exactly the upserted mods are enumerated.                      *)
(***************************************************************************)
ModRows(d, nexus_mod_id) == {m \in d.mods : m.nexus_mod_id = nexus_mod_id}

C7_SkipRule ==
    [][/\ PageStep =>
            /\ SeqIds(orch'.mods) =
                   {s.nexus_mod_id : s \in {x \in Range(ScrapedMods) : ~SkippedByRule(x)}}
            /\ \A s \in Range(ScrapedMods) :
                   IF SkippedByRule(s)
                   THEN ModRows(db', s.nexus_mod_id) = ModRows(db, s.nexus_mod_id)
                   ELSE \E m \in ModRows(db', s.nexus_mod_id) :
                            /\ m.last_update_at = AtMidnight(s.last_update_at)
                            /\ m.updated_at = now
       /\ (orch.pc = "files" /\ orch'.pc = "mods") => orch.db_mod.nexus_mod_id \in hist.upserted
       /\ (orch.pc = "mods" /\ orch'.pc = "page") => hist.enumerated = hist.upserted]_vars

\* a page has just been filtered and its mod was skipped by the rule
C7_Witness ==
    /\ orch.pc = "mods"
    /\ hist.upserted = {}
    /\ \E s \in Range(ScrapedMods) : SkippedByRule(s)

(***************************************************************************)
(* C8.  A mod is skipped only when nothing changed upstream since its      *)
(* last_updated_files_at: an upstream update made later on the day of the  *)
(* last processing puts the mod back in the queue.                         *)
(***************************************************************************)
C8_SkipImpliesUnchangedUpstream ==
    [][PageStep =>
          \A s \in Range(ScrapedMods) :
              s.nexus_mod_id \notin SeqIds(orch'.mods) =>
                  \A m \in ModRows(db, s.nexus_mod_id) :
                      up.mods[s.nexus_mod_id].last_update <= m.last_updated_files_at]_vars

(***************************************************************************)
(* C9.  A file skipped because its download failed keeps its flags and is  *)
(* attempted again by the next run.                                        *)
(***************************************************************************)
C9_DownloadFailedFileRetried ==
    /\ \A k \in hist.dl_skipped : \A f \in FileRows(db, k) :
           /\ f.downloaded_at = NullInt
           /\ f.has_plugin /\ f.has_download_link /\ ~f.unable_to_extract_plugins
    /\ (orch.pc = "done" /\ hist.prev_done) => hist.prev_dl_skipped \subseteq hist.attempted

(***************************************************************************)
(* C10.  pages_with_no_updates grows by one with every page whose upsert   *)
(* returned no mod and goes back to 0 with any other page; a run that is   *)
(* not full fetches no page once the counter is 50, and the counter never  *)
(* ends the page loop of a full run.                                       *)
(***************************************************************************)
PassStop == orch.pc = "page" /\ orch'.pc \in {"pass", "done"}

C10_NoUpdatesCounter ==
    [][/\ PageStep =>
            /\ orch'.pages_with_no_updates =
                   IF orch'.mods = <<>> THEN orch.pages_with_no_updates + 1 ELSE 0
            /\ orch.full \/ orch.pages_with_no_updates < NO_UPDATE_PAGES
       /\ PassStop =>
            \/ ~orch.has_next_page
            \/ ~orch.full /\ orch.pages_with_no_updates = NO_UPDATE_PAGES
       /\ orch'.pages_with_no_updates > NO_UPDATE_PAGES => orch.full]_vars

\* a run that is not full has stopped on the counter with pages left
C10_Witness ==
    /\ orch.pc \in {"pass", "done"}
    /\ ~orch.full
    /\ orch.has_next_page
    /\ orch.pages_with_no_updates = NO_UPDATE_PAGES


(***************************************************************************)
(* C11.  Of the files the files endpoint returns for an enqueued mod,      *)
(* those with a null or ARCHIVED category and those whose nexus_file_id is *)
(* in the mod's processed set (downloaded_at not null, or has_plugin       *)
(* false, or has_download_link false) get no File upsert and no metadata,  *)
(* download-link or download request; every other file is upserted and     *)
(* goes on to the metadata request.                                        *)
(***************************************************************************)
\* the processed set of a mod, in the words of the specification
ProcessedSet(d, mod_id) ==
    {f.nexus_file_id : f \in {r \in d.files :
        /\ r.mod_id = mod_id
        /\ (r.downloaded_at # NullInt \/ ~r.has_plugin \/ ~r.has_download_link)}}

Excluded(file) == file.category = NullStr \/ file.category = Archived

\* the files of the mod in hand that are still to be looked at, by position in the answer
Remaining(o) ==
    LET all == up.mods[o.db_mod.nexus_mod_id].files
    IN {all[i].file_id : i \in {j \in 1..Len(all) : ~Excluded(all[j])}}

C11_ExcludedAndProcessedFilesUntouched ==
    [][/\ (orch.pc = "mods" /\ orch'.pc = "files") =>
            /\ orch'.processed_file_ids = ProcessedSet(db, orch'.db_mod.id)
            /\ {orch'.files[i].file_id : i \in 1..Len(orch'.files)} = Remaining(orch')
            /\ \A i \in 1..Len(orch'.files) : ~Excluded(orch'.files[i])
       /\ (orch.pc = "files" /\ orch.files # <<>>) =>
            IF Head(orch.files).file_id \in orch.processed_file_ids
            THEN db' = db /\ orch'.pc = "files"
            ELSE /\ orch'.pc = "metadata"
                 /\ orch'.api_file = Head(orch.files)
                 /\ \E f \in db'.files :
                        /\ f.mod_id = orch.db_mod.id
                        /\ f.nexus_file_id = Head(orch.files).file_id
                        /\ f.updated_at = now
                        /\ f.id = orch'.db_file.id
       /\ orch'.pc \in {"metadata", "link", "download"} =>
            /\ ~Excluded(orch'.api_file)
            /\ orch'.api_file.file_id \notin orch'.processed_file_ids
       /\ (orch.pc = "files" /\ orch'.pc = "mods") =>
            {k.nexus_file_id : k \in {a \in hist'.attempted :
                                         a.nexus_mod_id = orch.db_mod.nexus_mod_id}}
                = Remaining(orch) \ orch.processed_file_ids]_vars

\* a later run is through the files of mod 1: one is archived, the other is processed
C11_Witness ==
    /\ hist.runs = 2
    /\ orch.pc = "files" /\ orch.files = <<>>
    /\ orch.db_mod.nexus_mod_id = 1
    /\ \E i \in 1..Len(up.mods[1].files) : up.mods[1].files[i].category = Archived
    /\ 12 \in orch.processed_file_ids
    /\ hist.attempted = {}


(***************************************************************************)
(* C12.  has_plugin of a file is set to false exactly when its content     *)
(* preview was fetched and holds no file whose name ends in .esp, .esm or  *)
(* .esl; then no download link is requested, downloaded_at stays null and  *)
(* the file has no Plugin row.  When the preview link is absent or the     *)
(* metadata request fails, has_plugin is left as it is and the download    *)
(* link is requested.                                                      *)
(***************************************************************************)
\* the names of the file nodes of a preview
RECURSIVE FileNames(_)
FileNames(json) ==
    (IF "type" \in DOMAIN json /\ json.type = "file" THEN {json.name} ELSE {})
        \cup (IF "children" \in DOMAIN json
              THEN UNION {FileNames(json.children[i]) : i \in 1..Len(json.children)}
              ELSE {})

\* the preview of the file was fetched and lists no plugin
PreviewWithoutPlugin(file) ==
    /\ file.preview \notin {"none", "error"}
    /\ \A name \in FileNames(PreviewJson(file.preview)) :
           ExtOf(name) \notin {"esp", "esm", "esl"}

\* the file of the upstream a File row stands for
UpstreamFiles(f) ==
    {up.mods[m.nexus_mod_id].files[i] :
        <<m, i>> \in {x \in db.mods \X {1, 2} :
                         /\ x[1].id = f.mod_id
                         /\ x[2] <= Len(up.mods[x[1].nexus_mod_id].files)
                         /\ up.mods[x[1].nexus_mod_id].files[x[2]].file_id = f.nexus_file_id}}

C12_HasPluginFalseIffPreviewWithoutPlugin ==
    [][/\ orch.pc = "metadata" =>
            IF PreviewWithoutPlugin(orch.api_file)
            THEN /\ orch'.pc = "files"
                 /\ \A f \in db'.files : f.id = orch.db_file.id =>
                        /\ ~f.has_plugin
                        /\ f.downloaded_at = NullInt
                        /\ \A p \in db'.plugins : p.file_id # f.id
            ELSE /\ orch'.pc = "link"
                 /\ db' = db
       /\ \A f \in db.files : \A g \in db'.files :
              (f.id = g.id /\ f.has_plugin /\ ~g.has_plugin) =>
                  /\ orch.pc = "metadata" /\ orch.db_file.id = f.id
                  /\ PreviewWithoutPlugin(orch.api_file)
       /\ \A f \in db'.files : ~f.has_plugin =>
              /\ f.downloaded_at = NullInt
              /\ \A p \in db'.plugins : p.file_id # f.id
              /\ \A file \in UpstreamFiles(f) : PreviewWithoutPlugin(file)]_vars

\* a file whose preview lists no plugin has been through the metadata step
C12_Witness ==
    /\ orch.pc = "files"
    /\ \E f \in db.files :
           /\ ~f.has_plugin /\ f.downloaded_at = NullInt
           /\ f.updated_at = now
           /\ \E file \in UpstreamFiles(f) : PreviewWithoutPlugin(file)


(***************************************************************************)
(* C13.  Every File with downloaded_at not null either has                 *)
(* unable_to_extract_plugins = true or has the raw bytes of every plugin   *)
(* of its archive stored at plugins/<game>/<nexus_mod_id>/<nexus_file_id>/ *)
(* followed by the plugin's path in the archive.  Stated for the states    *)
(* in which update has returned Ok.                                        *)
(***************************************************************************)
\* the plugins of the archive of a file: (path in the archive, bytes)
ArchivePlugins(file) ==
    {e \in Range(file.archive.entries) : e.is_file /\ ends_with_plugin_ext(e.path)}

\* the path under plugins/ at which the bytes of a plugin of a File row are expected
ExpectedPath(f, e) ==
    [game |-> GAME_NAME,
     nexus_mod_id |-> (CHOOSE m \in db.mods : m.id = f.mod_id).nexus_mod_id,
     nexus_file_id |-> f.nexus_file_id,
     file_path |-> replace_backslash(e.path)]

C13_DownloadedFilesHaveBlobs ==
    orch.pc = "done" =>
        \A f \in db.files :
            (f.downloaded_at # NullInt /\ ~f.unable_to_extract_plugins) =>
                \A file \in UpstreamFiles(f) : \A e \in ArchivePlugins(file) :
                    [at |-> ExpectedPath(f, e), buf |-> e.buf] \in blobs


(***************************************************************************)
(* C14.  After deduplicate_interior_cells every (form_id, master) among    *)
(* the Cells with world_id null has exactly one Cell row, and where the    *)
(* rows of that pair included one with is_base_game = true the row that    *)
(* survives is one of those.                                               *)
(***************************************************************************)
DedupStep == hist'.dedups = hist.dedups + 1

InteriorKeys(d) ==
    {[form_id |-> c.form_id, master |-> c.master] : c \in {x \in d.cells : x.world_id = NullInt}}

InteriorRows(d, k) ==
    {c \in d.cells : c.world_id = NullInt /\ c.form_id = k.form_id /\ c.master = k.master}

C14_OneInteriorCellPerKey ==
    [][DedupStep =>
          /\ InteriorKeys(db') = InteriorKeys(db)
          /\ \A k \in InteriorKeys(db) :
                /\ Cardinality(InteriorRows(db', k)) = 1
                /\ InteriorRows(db', k) \subseteq InteriorRows(db, k)
                /\ (\E c \in InteriorRows(db, k) : c.is_base_game)
                       => \A c \in InteriorRows(db', k) : c.is_base_game
          /\ {c \in db'.cells : c.world_id # NullInt} = {c \in db.cells : c.world_id # NullInt}]_vars

\* the routine has collapsed a pair that had a base-game row and another row
C14_Witness ==
    /\ hist.deduped
    /\ \E k \in InteriorKeys(hist.before_dedup) :
          /\ \E c \in InteriorRows(hist.before_dedup, k) : c.is_base_game
          /\ \E c \in InteriorRows(hist.before_dedup, k) : ~c.is_base_game
          /\ Cardinality(InteriorRows(db, k)) = 1


(***************************************************************************)
(* C15.  After deduplicate_interior_cells no PluginCell points at a Cell   *)
(* that is gone, no two PluginCells share (plugin_id, cell_id), and every  *)
(* plugin that had a PluginCell on a cell of a duplicated pair has exactly *)
(* one PluginCell on the surviving Cell of the pair: the one that had the  *)
(* smallest id among the plugin's PluginCells on the pair.                 *)
(***************************************************************************)
\* the PluginCells of a plugin on the cells of an interior pair
PluginCellsOn(d, plugin_id, k) ==
    {r \in d.plugin_cells :
        r.plugin_id = plugin_id /\ r.cell_id \in {c.id : c \in InteriorRows(d, k)}}

C15_PluginCellsCollapsed ==
    [][DedupStep =>
          /\ \A r \in db'.plugin_cells : \E c \in db'.cells : c.id = r.cell_id
          /\ \A r, q \in db'.plugin_cells :
                (r.plugin_id = q.plugin_id /\ r.cell_id = q.cell_id) => r = q
          /\ \A k \in InteriorKeys(db) : \A p \in db.plugins :
                (Cardinality(InteriorRows(db, k)) > 1 /\ PluginCellsOn(db, p.id, k) # {}) =>
                    /\ Cardinality(PluginCellsOn(db', p.id, k)) = 1
                    /\ \A r \in PluginCellsOn(db', p.id, k) :
                          \E q \in PluginCellsOn(db, p.id, k) :
                              /\ q.id = r.id /\ q.editor_id = r.editor_id
                              /\ \A o \in PluginCellsOn(db, p.id, k) : q.id <= o.id]_vars

\* the routine has collapsed two PluginCells of one plugin on one pair
C15_Witness ==
    /\ hist.deduped
    /\ \E k \in InteriorKeys(hist.before_dedup) : \E p \in db.plugins :
          /\ Cardinality(PluginCellsOn(hist.before_dedup, p.id, k)) > 1
          /\ Cardinality(PluginCellsOn(db, p.id, k)) = 1

(***************************************************************************)
(* C16.  deduplicate_interior_cells is idempotent: run again after a       *)
(* completed run, it deletes no Cell and deletes or repoints no            *)
(* PluginCell.                                                             *)
(***************************************************************************)
C16_DedupIdempotent ==
    [][DedupStep =>
          /\ \A r \in deduplicate_interior_cells(db', now) :
                r.cells = db'.cells /\ r.plugin_cells = db'.plugin_cells
          /\ hist.deduped => (db'.cells = db.cells /\ db'.plugin_cells = db.plugin_cells)]_vars

\* the routine has run twice in a row, and the first run had cells to delete
C16_Witness ==
    /\ hist.deduped
    /\ hist.dedups = 2
    /\ hist.before_dedup = db
    /\ db.seq.cells > Cardinality(db.cells) + 1
    /\ \E r \in db.plugin_cells : \E c \in db.cells : c.id = r.cell_id /\ c.world_id = NullInt


(***************************************************************************)
(* C17.  When the download-link request of a file has failed on all three  *)
(* attempts with a failure other than 404, the file is skipped and the run *)
(* goes on with the remaining files and mods: it does not end there.       *)
(***************************************************************************)
C17_LinkFailureSkipsFile ==
    [][(orch.pc = "link" /\ orch.api_file.link = "500")
          => /\ orch'.pc = "files"
             /\ orch'.files = orch.files
             /\ orch'.mods = orch.mods]_vars


(***************************************************************************)
(* C18  A database error raised while a file's plugins are processed       *)
(* aborts the run: the file is not skipped, it is not recorded as          *)
(* unable_to_extract_plugins, and no fallback extractor runs (nothing is   *)
(* written after the failed statement).                                    *)
(***************************************************************************)
\* the result of the extractor that update calls first on the archive
FirstExtractor(d, bl, o, t) ==
    IF o.kind = MIME_RAR
    THEN extract_with_unrar(d, bl, o.api_file.archive, o.db_file, o.db_mod, o.checked_metadata, t)
    ELSE extract_with_compress_tools(d, bl, o.api_file.archive, o.db_file, o.db_mod, t)

C18_DatabaseErrorAborts ==
    [][(orch.pc = "extract" /\ FirstExtractor(db, blobs, orch, now).res = "db_error")
          => /\ orch'.pc = "aborted"
             /\ db' = FirstExtractor(db, blobs, orch, now).db]_vars


(***************************************************************************)
(* The request loops of the API client (nexus_api).  One call is           *)
(*   orch = [pc, op, outcomes, attempt, requests, slept, res]              *)
(* where outcomes[i] is what the i-th request of the call meets, requests  *)
(* counts the requests sent and slept the seconds slept between them.      *)
(***************************************************************************)
MAX_ATTEMPTS == 3
RETRY_SLEEP == 1

ApiOps == {"files::get", "download_link::get", "download_file", "contains_plugin",
           "game_mod::get"}

\*   "network_error": send() fails         "status_4xx", "status_5xx": error_for_status() fails
\*   "body_error": the body cannot be read  "ok": the response is read
Outcomes == {"ok", "network_error", "status_4xx", "status_5xx", "body_error"}

RECURSIVE SeqsOf(_, _)
SeqsOf(S, n) == IF n = 0 THEN {<<>>} ELSE {Append(s, x) : s \in SeqsOf(S, n - 1), x \in S}

\* the body of `for attempt in 1..=3` on one outcome: "return_ok", "return_err"
\* (the ? operator) or "sleep_continue" (a warning, a sleep, the next iteration)
attempt_result(op, outcome) ==
    CASE outcome = "ok" -> "return_ok"
      [] outcome \in {"status_4xx", "status_5xx"} -> "sleep_continue"
      [] outcome = "network_error" ->
            IF op = "contains_plugin" THEN "return_err" ELSE "sleep_continue"
      [] OTHER -> IF op = "download_file" THEN "sleep_continue" ELSE "return_err"

\* an upstream that lists nothing
NoUpstream ==
    [listing |-> [t \in BOOLEAN |-> <<>>], beyond |-> "none",
     mods |-> [m \in ModIds |-> UpMod(<<"mod">>, <<>>)]]

InitApi ==
    /\ db = EmptyDb
    /\ blobs = {}
    /\ up = NoUpstream
    /\ now = 0
    /\ orch \in {[pc |-> "attempt", op |-> op, outcomes |-> s, attempt |-> 1, requests |-> 0,
                  slept |-> 0, res |-> "none"] : op \in ApiOps, s \in SeqsOf(Outcomes, MAX_ATTEMPTS)}
    /\ hist = InitHist

\* one iteration of the request loop
ApiAttempt ==
    /\ orch.pc = "attempt"
    /\ orch.attempt <= MAX_ATTEMPTS
    /\ \E r \in {attempt_result(orch.op, orch.outcomes[orch.attempt])} :
          orch' = CASE r = "return_ok" ->
                         [orch EXCEPT !.pc = "returned", !.requests = @ + 1, !.res = "ok"]
                    [] r = "return_err" ->
                         [orch EXCEPT !.pc = "returned", !.requests = @ + 1, !.res = "err"]
                    [] OTHER ->
                         [orch EXCEPT !.attempt = @ + 1, !.requests = @ + 1,
                                      !.slept = @ + RETRY_SLEEP]
    /\ UNCHANGED <<db, blobs, up, now, hist>>

\* the loop is over: Err(anyhow!("Failed to .. in three attempts"))
ApiExhausted ==
    /\ orch.pc = "attempt"
    /\ orch.attempt > MAX_ATTEMPTS
    /\ orch' = [orch EXCEPT !.pc = "returned", !.res = "err"]
    /\ UNCHANGED <<db, blobs, up, now, hist>>

NextApi ==
    \/ ApiAttempt
    \/ ApiExhausted

\* one call of one API client operation
SpecApi == InitApi /\ [][NextApi]_vars

(***************************************************************************)
(* C19  Every API client operation sends at most 3 requests per call,      *)
(* returns at the first request that succeeds, sends a further request     *)
(* after a 1 second sleep when request 1 or 2 meets a network error or a   *)
(* 5xx status, and returns an error once the third request has failed.     *)
(***************************************************************************)
Transient == {"network_error", "status_5xx"}

C19_RetryPolicy ==
    [][/\ orch'.requests <= 3
       /\ (orch.attempt <= 3 /\ orch.outcomes[orch.attempt] = "ok")
             => (orch'.pc = "returned" /\ orch'.res = "ok")
       /\ (orch.attempt \in {1, 2} /\ orch.outcomes[orch.attempt] \in Transient)
             => /\ orch'.pc = "attempt"
                /\ orch'.attempt = orch.attempt + 1
                /\ orch'.slept = orch.slept + 1
       /\ (orch.attempt = 3 /\ orch.outcomes[3] \in Transient) => orch'.res # "ok"
       /\ orch.attempt > 3
             => (orch'.pc = "returned" /\ orch'.res = "err")]_vars


(***************************************************************************)
(* nexus_api::rate_limit_wait_duration.  Times are seconds; a call is      *)
(*   orch = [pc, headers, utc_now, res]                                    *)
(* with the rate-limit headers the response carries (a function from the   *)
(* names present to their values) and the clock at the call.               *)
(***************************************************************************)
MaxRemaining == 3
MaxClock == 8
RESET_MARGIN == 5
PACING_SECS == 1

DAILY_REMAINING == "x-rl-daily-remaining"
HOURLY_REMAINING == "x-rl-hourly-remaining"
HOURLY_RESET == "x-rl-hourly-reset"
RateLimitHeaders == {DAILY_REMAINING, HOURLY_REMAINING, HOURLY_RESET}

\* chrono::Duration::to_std: a negative duration is an OutOfRangeError
to_std(secs) == IF secs < 0 THEN [ok |-> FALSE, secs |-> NullInt] ELSE [ok |-> TRUE, secs |-> secs]

\* rate_limit_wait_duration: [ok, secs, panic]; ok FALSE is Err, panic TRUE is a
\* failed .expect(..) on res.headers().get(..)
rate_limit_wait_duration(headers, utc_now) ==
    IF RateLimitHeaders \ DOMAIN headers # {}
    THEN [ok |-> FALSE, secs |-> NullInt, panic |-> TRUE]
    ELSE IF headers[DAILY_REMAINING] <= 1 /\ headers[HOURLY_REMAINING] <= 1
    THEN The({[ok |-> d.ok, secs |-> d.secs, panic |-> FALSE] :
                 d \in {to_std((headers[HOURLY_RESET] + RESET_MARGIN) - utc_now)}})
    ELSE [ok |-> TRUE, secs |-> PACING_SECS, panic |-> FALSE]

\* the values a header may carry
HeaderValues(name) == IF name = HOURLY_RESET THEN 0..MaxClock ELSE 0..MaxRemaining

\* the header maps of a response: any of the three headers may be absent
HeaderMaps ==
    UNION {{h \in [present -> 0..(MaxClock + MaxRemaining)] :
               \A name \in present : h[name] \in HeaderValues(name)} :
           present \in SUBSET RateLimitHeaders}

InitRateLimit ==
    /\ db = EmptyDb
    /\ blobs = {}
    /\ up = NoUpstream
    /\ now = 0
    /\ orch \in {[pc |-> "call", headers |-> h, utc_now |-> n,
                  res |-> [ok |-> FALSE, secs |-> NullInt, panic |-> FALSE]] :
                 h \in HeaderMaps, n \in 0..MaxClock}
    /\ hist = InitHist

\* the function is applied to the response
RateLimitCall ==
    /\ orch.pc = "call"
    /\ orch' = [orch EXCEPT !.pc = "returned",
                            !.res = rate_limit_wait_duration(orch.headers, orch.utc_now)]
    /\ UNCHANGED <<db, blobs, up, now, hist>>

NextRateLimit == RateLimitCall

\* one call of rate_limit_wait_duration
SpecRateLimit == InitRateLimit /\ [][NextRateLimit]_vars

(***************************************************************************)
(* C20  rate_limit_wait_duration returns (hourly_reset + 5 seconds) minus  *)
(* the current time when both remaining counters are <= 1, and exactly     *)
(* 1 second in every other case.                                           *)
(***************************************************************************)
C20_WaitDuration ==
    (orch.pc = "returned" /\ DOMAIN orch.headers = RateLimitHeaders)
        => /\ orch.res.ok
           /\ orch.res.secs = IF /\ orch.headers[DAILY_REMAINING] <= 1
                                 /\ orch.headers[HOURLY_REMAINING] <= 1
                              THEN (orch.headers[HOURLY_RESET] + 5) - orch.utc_now
                              ELSE 1

(***************************************************************************)
(* C21  When a successful response lacks any of the three rate-limit       *)
(* headers, rate_limit_wait_duration does not fail and returns the default *)
(* pacing delay of 1 second.                                               *)
(***************************************************************************)
C21_MissingHeadersNotFatal ==
    (orch.pc = "returned" /\ DOMAIN orch.headers # RateLimitHeaders)
        => /\ ~orch.res.panic
           /\ orch.res.ok
           /\ orch.res.secs = 1

(***************************************************************************)
(* C22  After a rate-limited API response (files list, download link) the  *)
(* run sleeps the wait returned for it before it sends the next request to *)
(* the rate-limited API, on every path through the processing of a file.   *)
(***************************************************************************)
\* the step sends files::get (the next mod) or download_link::get (the file)
SendsApiRequest == (orch.pc = "mods" /\ orch.mods # <<>>) \/ orch.pc = "link"

C22_WaitSleptBeforeNextRequest ==
    [][SendsApiRequest => ~hist.wait_owed]_vars


(***************************************************************************)
(* C23  For a RAR archive that unrar fails to list or extract, 7z is tried *)
(* before the file can be marked unable_to_extract_plugins, and when 7z    *)
(* succeeds the plugins are persisted exactly as unrar would have          *)
(* persisted them.                                                         *)
(***************************************************************************)
\* what extract_with_unrar does on the archive when unrar reads it
PrimaryRar(d, bl, o, t) ==
    extract_with_unrar(d, bl, [o.api_file.archive EXCEPT !.unrar = "ok"], o.db_file, o.db_mod,
                       o.checked_metadata, t)

C23_RarFallsBackTo7z ==
    [][(/\ orch.pc = "extract"
        /\ orch.kind = MIME_RAR
        /\ orch.api_file.archive.unrar # "ok"
        /\ orch.api_file.archive.sevenzip = "ok")
          => /\ orch'.pc = "files"
             /\ db' = PrimaryRar(db, blobs, orch, now).db
             /\ blobs' = PrimaryRar(db, blobs, orch, now).blobs]_vars


(***************************************************************************)
(* C24  Whatever the MIME type and the extractor, an archive that cannot   *)
(* be read, of a file without metadata preview, leaves the file with       *)
(* unable_to_extract_plugins = true and without Plugin rows, and the run   *)
(* goes on with the next file.                                             *)
(***************************************************************************)
\* no extractor that update tries on the archive reads it
Unreadable(archive, kind) ==
    /\ archive.sevenzip # "ok"
    /\ IF kind = MIME_RAR THEN archive.unrar # "ok" ELSE archive.libarchive # "ok"

C24_UnreadableWithoutPreviewIsSkipped ==
    [][(/\ orch.pc = "extract"
        /\ ~orch.checked_metadata
        /\ Unreadable(orch.api_file.archive, orch.kind))
          => /\ orch'.pc = "files"
             /\ \E f \in db'.files : f.id = orch.db_file.id /\ f.unable_to_extract_plugins = TRUE
             /\ ~\E p \in db'.plugins : p.file_id = orch.db_file.id]_vars


(***************************************************************************)
(* C25  A downloaded file sniffed as a portable executable always ends     *)
(* with unable_to_extract_plugins = true and without Plugin rows, and the  *)
(* run goes on with the next file.                                         *)
(***************************************************************************)
C25_ExeIsNeverExtracted ==
    [][(orch.pc = "extract" /\ orch.kind = MIME_EXE)
          => /\ orch'.pc = "files"
             /\ \E f \in db'.files : f.id = orch.db_file.id /\ f.unable_to_extract_plugins = TRUE
             /\ ~\E p \in db'.plugins : p.file_id = orch.db_file.id]_vars


(***************************************************************************)
(* C26  The file_path of a Plugin row, and the path below                  *)
(* plugins/<game>/<nexus_mod_id>/<nexus_file_id>/ of its raw bytes, is the *)
(* plugin's path inside the archive with backslashes replaced by forward   *)
(* slashes, whichever extractor produced the plugin.                       *)
(***************************************************************************)
\* the paths of the plugins inside the archives of a File row, backslashes replaced
ArchivePaths(f) ==
    {replace_backslash(e.path) : e \in UNION {ArchivePlugins(file) : file \in UpstreamFiles(f)}}

C26_FilePathIsArchivePath ==
    /\ \A p \in db.plugins : \A f \in db.files :
           f.id = p.file_id => p.file_path \in ArchivePaths(f)
    /\ \A b \in blobs : \A f \in db.files :
           f.nexus_file_id = b.at.nexus_file_id => b.at.file_path \in ArchivePaths(f)


(***************************************************************************)
(* C27  A non-empty plugin that cannot be parsed is not an error: no row   *)
(* is created for it, its raw bytes are still written, and the other       *)
(* plugins of the archive are processed; the raw bytes of every non-empty  *)
(* plugin are written whether it parses or not.                            *)
(***************************************************************************)
\* the archive of the file without the plugins that cannot be parsed
ParsableOnly(archive) ==
    [archive EXCEPT !.entries = SelectSeq(@, LAMBDA e : parse_plugin(e.buf).ok)]

\* the step hands an archive that libarchive reads to extract_with_compress_tools
StreamingStep ==
    orch.pc = "extract" /\ orch.kind # MIME_RAR /\ orch.api_file.archive.libarchive = "ok"

C27_ParseFailureSkipsPluginOnly ==
    [][StreamingStep
          => /\ orch'.pc = "files"
             /\ db' = extract_with_compress_tools(db, blobs, ParsableOnly(orch.api_file.archive),
                                                  orch.db_file, orch.db_mod, now).db
             /\ \A e \in ArchivePlugins(orch.api_file) :
                    e.buf # EmptyBuf =>
                        [at |-> plugin_path(orch.db_mod, orch.db_file, replace_backslash(e.path)),
                         buf |-> e.buf] \in blobs']_vars

\* the unparsable b.esp of a file is on disk, without a Plugin row, next to the
\* Plugin row of the a.esp that follows it in the archive
C27_Witness ==
    \E b \in blobs : \E f \in db.files :
        /\ b.buf = "buf_bad"
        /\ f.nexus_file_id = b.at.nexus_file_id
        /\ ~\E p \in db.plugins : p.file_id = f.id /\ p.file_path = b.at.file_path
        /\ \E p \in db.plugins : p.file_id = f.id /\ p.file_path = <<"a.esp">>


(***************************************************************************)
(* plugin_processor::get_local_form_id_and_master on its own.  A call is   *)
(*   orch = [pc, index, local, form_id, masters, file_name, res]           *)
(* where form_id is the record id built from a master index (its high 8    *)
(* bits) and a local id (its low 24 bits).                                 *)
(***************************************************************************)
MaxMasterIndex == 5

\* local ids: the smallest, the largest and the ones of the two examples
LocalIds == {0, 1, 11259375, MASTER_SHIFT - 1}

\* master indexes: the low ones and the highest that leaves bit 31 clear
MasterIndexes == 0..MaxMasterIndex \cup {127}

MasterLists == {<<>>, <<<<"A.esm">>>>, <<<<"A.esm">>, <<"B.esm">>>>,
                <<SkyrimEsm, <<"A.esm">>, <<"B.esm">>>>}

InitFormId ==
    /\ db = EmptyDb
    /\ blobs = {}
    /\ up = NoUpstream
    /\ now = 0
    /\ orch \in {[pc |-> "call", index |-> i, local |-> l, form_id |-> i * MASTER_SHIFT + l,
                  masters |-> m, file_name |-> <<"a.esp">>,
                  res |-> [form_id |-> NullInt, master |-> NullStr]] :
                 i \in MasterIndexes, l \in LocalIds, m \in MasterLists}
    /\ hist = InitHist

\* the function is applied to the record id
DecodeFormId ==
    /\ orch.pc = "call"
    /\ orch' = [orch EXCEPT !.pc = "returned",
                            !.res = get_local_form_id_and_master(orch.form_id, orch.masters,
                                                                 orch.file_name)]
    /\ UNCHANGED <<db, blobs, up, now, hist>>

NextFormId == DecodeFormId

\* one call of get_local_form_id_and_master
SpecFormId == InitFormId /\ [][NextFormId]_vars

(***************************************************************************)
(* C28  get_local_form_id_and_master returns the low 24 bits of form_id as *)
(* local id, a non-negative 32-bit signed value, with the master at the    *)
(* index given by the high 8 bits when that index is below len(masters),   *)
(* and file_name otherwise.                                                *)
(***************************************************************************)
C28_FormIdDecoding ==
    orch.pc = "returned"
        => /\ orch.res.form_id = orch.local
           /\ orch.res.form_id >= 0 /\ orch.res.form_id <= 2147483647
           /\ orch.res.master = IF orch.index < Len(orch.masters)
                                THEN orch.masters[orch.index + 1]
                                ELSE orch.file_name

\* the two examples: 0x01ABCDEF against [A.esm, B.esm], 0x05000001 against [A.esm]
C28_Witness ==
    /\ orch.pc = "returned"
    /\ \/ /\ orch.form_id = 28036591
          /\ orch.masters = <<<<"A.esm">>, <<"B.esm">>>>
          /\ orch.res = [form_id |-> 11259375, master |-> <<"B.esm">>]
       \/ /\ orch.form_id = 83886081
          /\ orch.masters = <<<<"A.esm">>>>
          /\ orch.res = [form_id |-> 1, master |-> <<"a.esp">>]


(***************************************************************************)
(* C29  An archive entry is yielded as a plugin exactly when it is a file  *)
(* whose path ends in .esp, .esm or .esl, compared without regard to case  *)
(* (Foo.ESP is yielded), the same for every extractor.                     *)
(***************************************************************************)
\* the extension in lower case
LowerExt(ext) == IF ext = "ESP" THEN "esp" ELSE ext

\* the entry is a file named like a plugin, whatever the case of its extension
NamedLikePlugin(e) ==
    e.is_file /\ e.path # <<>> /\ LowerExt(ExtOf(e.path[Len(e.path)])) \in {"esp", "esm", "esl"}

\* the extraction step ends with the archive read and the file not given up
Extracted ==
    /\ orch.pc = "extract"
    /\ orch'.pc = "files"
    /\ \A f \in db'.files : f.id = orch.db_file.id => ~f.unable_to_extract_plugins

C29_PluginExtensionsAnyCase ==
    [][Extracted
          => \A i \in 1..Len(orch.api_file.archive.entries) :
                 LET e == orch.api_file.archive.entries[i] IN
                 parse_plugin(e.buf).ok =>
                     (NamedLikePlugin(e) <=>
                         \E p \in db'.plugins :
                             /\ p.file_id = orch.db_file.id
                             /\ p.file_name = FileNameOf(replace_backslash(e.path)))]_vars


(***************************************************************************)
(* C30  An archive that cannot be read, of a file whose metadata preview   *)
(* reported a plugin, is fatal whatever the extractor: the run aborts, no  *)
(* plugin of a partly extracted archive is persisted and the file is not   *)
(* marked unable_to_extract_plugins.                                       *)
(***************************************************************************)
C30_UnreadableWithPreviewIsFatal ==
    [][(/\ orch.pc = "extract"
        /\ orch.checked_metadata
        /\ Unreadable(orch.api_file.archive, orch.kind))
          => /\ orch'.pc = "aborted"
             /\ db'.plugins = db.plugins
             /\ \A f \in db'.files : f.id = orch.db_file.id => ~f.unable_to_extract_plugins]_vars

(***************************************************************************)
(* process_plugin, one awaited statement at a time                         *)
(* (plugin_processor.rs 32-167).  orch is the call:                        *)
(*   [pc, plugin_buf, file_path, db_file, db_mod, plugin_row, db_worlds,   *)
(*    db_cells]                                                            *)
(* with pc the statement the call is about to execute: "plugins", "worlds", *)
(* "plugin_worlds", "cells", "plugin_cells", "blob", or "idle" between two *)
(* calls.                                                                  *)
(***************************************************************************)
MaxCalls == 2

PluginPaths == {<<"a.esp">>, <<"data", "/", "b.esp">>}

IdleCall ==
    [pc |-> "idle", plugin_buf |-> EmptyBuf, file_path |-> <<>>, db_file |-> NoRow,
     db_mod |-> NoRow, plugin_row |-> NoRow, db_worlds |-> <<>>, db_cells |-> <<>>]

\* the database when the first archive of a run is extracted: the game, one mod
\* and two files of it are stored (update.rs 28-39, 69-109, 145-158)
FilesDb ==
    The({The({file_insert(
                  file_insert(m.db, [name |-> <<"file">>, nexus_file_id |-> 11,
                                     mod_id |-> m.rows[1].id, category |-> <<"MAIN">>], 0).db,
                  [name |-> <<"file">>, nexus_file_id |-> 12, mod_id |-> m.rows[1].id,
                   category |-> <<"MAIN">>], 0).db :
              m \in {game_mod_batched_insert(
                         g.db, <<[name |-> <<"mod">>, nexus_mod_id |-> 1, game_id |-> g.row.id,
                                  is_translation |-> FALSE, last_update_at |-> 0]>>, 0)}}) :
         g \in {game_insert(EmptyDb, GAME_NAME, GAME_ID, 0)}})

InitPlugin ==
    /\ db \in {FilesDb, backfill_is_base_game(FilesDb, BasePlugin, 0).db}
    /\ blobs = {}
    /\ up = NoUpstream
    /\ now = 0
    /\ orch = IdleCall
    /\ hist = InitHist

\* plugin_processor.rs 39-44: the call begins; an empty buffer returns at once and
\* a buffer that does not parse goes straight to the write of the raw bytes
ProcessPluginBegin ==
    /\ orch.pc = "idle"
    /\ hist.events < MaxCalls
    /\ \E buf \in Bufs, db_file \in db.files, file_path \in PluginPaths :
          orch' = [IdleCall EXCEPT
                      !.pc = IF buf = EmptyBuf THEN "idle"
                             ELSE IF parse_plugin(buf).ok THEN "plugins" ELSE "blob",
                      !.plugin_buf = buf, !.file_path = file_path, !.db_file = db_file,
                      !.db_mod = The({m \in db.mods : m.id = db_file.mod_id})]
    /\ hist' = [hist EXCEPT !.events = @ + 1]
    /\ UNCHANGED <<db, blobs, up, now>>

\* plugin_processor.rs 59-75: plugin::insert
PluginInsert ==
    /\ orch.pc = "plugins"
    /\ \E r \in {plugin_insert(db, unsaved_plugin(parse_plugin(orch.plugin_buf).plugin,
                                                  orch.plugin_buf, orch.db_file, orch.db_mod,
                                                  orch.file_path), now)} :
          /\ db' = r.db
          /\ orch' = [orch EXCEPT !.pc = "worlds", !.plugin_row = r.row]
    /\ UNCHANGED <<blobs, up, now, hist>>

\* plugin_processor.rs 77-87: world::batched_insert
WorldsInsert ==
    /\ orch.pc = "worlds"
    /\ \E r \in {world_batched_insert(db, unsaved_worlds(parse_plugin(orch.plugin_buf).plugin,
                                                         FileNameOf(orch.file_path)), now)} :
          /\ db' = r.db
          /\ orch' = [orch EXCEPT !.pc = "plugin_worlds", !.db_worlds = r.rows]
    /\ UNCHANGED <<blobs, up, now, hist>>

\* plugin_processor.rs 88-97: plugin_world::batched_insert
PluginWorldsInsert ==
    /\ orch.pc = "plugin_worlds"
    /\ db' = plugin_world_batched_insert(
                 db, unsaved_plugin_worlds(parse_plugin(orch.plugin_buf).plugin, orch.plugin_row,
                                           orch.db_worlds), now)
    /\ orch' = [orch EXCEPT !.pc = "cells"]
    /\ UNCHANGED <<blobs, up, now, hist>>

\* plugin_processor.rs 99-130: cell::batched_insert; the call ends here when a
\* cell's world is not among the world rows or when the statement fails
CellsInsert ==
    /\ orch.pc = "cells"
    /\ IF expect_world_fails(parse_plugin(orch.plugin_buf).plugin, FileNameOf(orch.file_path),
                             orch.db_worlds)
       THEN orch' = IdleCall /\ UNCHANGED db
       ELSE \E r \in {cell_batched_insert(
                          db, unsaved_cells(parse_plugin(orch.plugin_buf).plugin,
                                            FileNameOf(orch.file_path), orch.db_worlds),
                          FALSE, now)} :
               /\ db' = r.db
               /\ orch' = IF r.ok THEN [orch EXCEPT !.pc = "plugin_cells", !.db_cells = r.rows]
                          ELSE IdleCall
    /\ UNCHANGED <<blobs, up, now, hist>>

\* plugin_processor.rs 131-142: plugin_cell::batched_insert
PluginCellsInsert ==
    /\ orch.pc = "plugin_cells"
    /\ db' = plugin_cell_batched_insert(
                 db, unsaved_plugin_cells(parse_plugin(orch.plugin_buf).plugin, orch.plugin_row,
                                          orch.db_cells), now)
    /\ orch' = [orch EXCEPT !.pc = "blob"]
    /\ UNCHANGED <<blobs, up, now, hist>>

\* plugin_processor.rs 149-166: the raw bytes are written and the call returns
BlobWrite ==
    /\ orch.pc = "blob"
    /\ blobs' = write_blob(blobs, plugin_path(orch.db_mod, orch.db_file, orch.file_path),
                           orch.plugin_buf)
    /\ orch' = IdleCall
    /\ UNCHANGED <<db, up, now, hist>>

\* the process is stopped between two statements of the call
ProcessPluginInterrupted ==
    /\ orch.pc # "idle"
    /\ orch' = IdleCall
    /\ hist' = [hist EXCEPT !.ever_cancelled = TRUE]
    /\ UNCHANGED <<db, blobs, up, now>>

NextPlugin ==
    \/ ProcessPluginBegin
    \/ PluginInsert
    \/ WorldsInsert
    \/ PluginWorldsInsert
    \/ CellsInsert
    \/ PluginCellsInsert
    \/ BlobWrite
    \/ ProcessPluginInterrupted

\* calls of process_plugin, interrupted or not, on the files of one mod
SpecPlugin == InitPlugin /\ [][NextPlugin]_vars

(***************************************************************************)
(* C31.  In every state reached during process_plugin, the states left by  *)
(* an interruption between two of its statements included, every           *)
(* PluginWorld references an existing Plugin and an existing World, every  *)
(* PluginCell an existing Plugin and an existing Cell, and every Cell with *)
(* a non-null world_id an existing World; the statements of one plugin     *)
(* write in the order Plugin, Worlds, PluginWorlds, Cells, PluginCells.    *)
(***************************************************************************)
Ids(rows) == {r.id : r \in rows}

ReferencesExist(d) ==
    /\ \A pw \in d.plugin_worlds : pw.plugin_id \in Ids(d.plugins) /\ pw.world_id \in Ids(d.worlds)
    /\ \A pc \in d.plugin_cells : pc.plugin_id \in Ids(d.plugins) /\ pc.cell_id \in Ids(d.cells)
    /\ \A c \in d.cells : c.world_id # NullInt => c.world_id \in Ids(d.worlds)

\* the table each statement of the call writes, in the order of the statements
WriteOrder == <<"plugins", "worlds", "plugin_worlds", "cells", "plugin_cells">>

\* a step that changes table WriteOrder[i] is statement i of the call, and statement
\* i is followed by statement i + 1 only
InWriteOrder ==
    /\ \A i \in 1..Len(WriteOrder) :
          db'[WriteOrder[i]] # db[WriteOrder[i]] => orch.pc = WriteOrder[i]
    /\ \A i \in 1..(Len(WriteOrder) - 1) :
          orch.pc = WriteOrder[i] => orch'.pc \in {WriteOrder[i + 1], "idle"}
    /\ orch'.pc = "plugins" => orch.pc = "idle"
    /\ \A i \in 2..Len(WriteOrder) : orch'.pc = WriteOrder[i] => orch.pc = WriteOrder[i - 1]

C31_ReferentialCompleteness ==
    [](ReferencesExist(db)) /\ [][InWriteOrder]_vars

\* the call was interrupted after its Cells statement created a cell of a world:
\* the cell has no PluginCell yet
C31_Witness ==
    /\ orch.pc = "idle"
    /\ hist.ever_cancelled
    /\ \E c \in db.cells :
          /\ c.world_id # NullInt
          /\ ~c.is_base_game
          /\ \A pc \in db.plugin_cells : pc.cell_id # c.id

(***************************************************************************)
(* C32.  Every Cell row that process_plugin writes has a non-null world_id *)
(* exactly when the cell record it was built from carries a world_form_id, *)
(* and it stores the record's x and y; so every exterior cell (a cell with *)
(* x and y) has a non-null world_id and every interior cell a null one.    *)
(***************************************************************************)
Exterior(c) == c.x # NullInt /\ c.y # NullInt

\* the cell records of the plugin of the call that decode to the key of row c and
\* agree with it on carrying a world
RecordsOf(c) ==
    {r \in Range(parse_plugin(orch.plugin_buf).plugin.cells) :
        \E k \in {get_local_form_id_and_master(r.form_id,
                                               parse_plugin(orch.plugin_buf).plugin.header.masters,
                                               FileNameOf(orch.file_path))} :
            /\ k.form_id = c.form_id /\ k.master = c.master
            /\ (r.world_form_id # NullInt) <=> (c.world_id # NullInt)}

CellsStatement == orch.pc = "cells" /\ orch'.pc = "plugin_cells"

C32_WorldIdIffExterior ==
    /\ [](\A c \in db.cells : Exterior(c) <=> c.world_id # NullInt)
    /\ [][CellsStatement =>
            /\ \A c \in db'.cells \ db.cells :
                  \E r \in RecordsOf(c) : c.x = r.x /\ c.y = r.y
            /\ \A r \in Range(parse_plugin(orch.plugin_buf).plugin.cells) :
                  r.world_form_id = NullInt =>
                      \E c \in db'.cells \ db.cells : r \in RecordsOf(c) /\ c.world_id = NullInt]_vars

\* the Cells statement of a plugin with cells of both kinds has run
C32_Witness ==
    /\ orch.pc = "plugin_cells"
    /\ \E c1, c2 \in Range(orch.db_cells) :
          /\ Exterior(c1) /\ c1.world_id # NullInt
          /\ ~Exterior(c2) /\ c2.world_id = NullInt

(***************************************************************************)
(* Runs of the update command on archives that are not RAR archives: every *)
(* MIME type the match falls through on, with every outcome of the         *)
(* streaming extractor.                                                    *)
(***************************************************************************)
NonRarArchives ==
    {[has8 |-> TRUE, mime |-> mime, entries |-> <<Entry(<<"a.esp">>, buf)>>,
      libarchive |-> libarchive, unrar |-> "list_fails", sevenzip |-> "ok"] :
        mime \in {MIME_ZIP, MIME_7Z, MIME_EXE, MIME_OTHER},
        buf \in {"buf_a", "buf_d"},
        libarchive \in {"ok", "list_fails", "read_fails"}}

StrategyUpstreams ==
    {[listing |-> [t \in BOOLEAN |-> IF t THEN <<>> ELSE <<Page(<<1>>, "last")>>],
      beyond |-> "last",
      mods |-> [m \in ModIds |-> IF m = 1
                                 THEN UpMod(<<"one">>, <<[GoodFile(11, a) EXCEPT !.preview = p],
                                                         GoodFile(12, ZipA)>>)
                                 ELSE UpMod(<<"two">>, <<>>)]] :
        a \in NonRarArchives, p \in {"has_plugin", "none"}}

InitStrategy ==
    /\ db = EmptyDb
    /\ blobs = {}
    /\ up \in StrategyUpstreams
    /\ now = 0
    /\ orch = IdleOrch(FALSE, 1)
    /\ hist = InitHist

NextStrategy ==
    \/ StartRun
    \/ PassBegin
    \/ PageFetch
    \/ PassEnd
    \/ ModBegin
    \/ PageEnd
    \/ FileBegin
    \/ ModEnd
    \/ FileMetadata
    \/ FileLink
    \/ FileDownload
    \/ FileSniff
    \/ FileExtract

SpecStrategy == InitStrategy /\ [][NextStrategy]_vars

(***************************************************************************)
(* C33.  On an archive that is not a RAR archive, 7z is invoked exactly    *)
(* when the streaming extractor returned an ExtractorError and the MIME    *)
(* type is application/zip or application/x-7z-compressed.  Any other      *)
(* failure of the streaming extractor on these two types, and any failure  *)
(* on another MIME type that is not an executable, ends the run with the   *)
(* error and invokes nothing else.                                         *)
(***************************************************************************)
\* the result of the streaming extractor on the archive of the step
Streamed ==
    extract_with_compress_tools(db, blobs, orch.api_file.archive, orch.db_file, orch.db_mod, now)

NonRarStep == orch.pc = "extract" /\ orch.kind # MIME_RAR

C33_FallbackStrategy ==
    [][NonRarStep =>
         /\ ("7zip" \in Range(hist'.ran)) <=>
                (Streamed.res = "extractor_error" /\ orch.kind \in {MIME_ZIP, MIME_7Z})
         /\ (/\ Streamed.res # "ok"
             /\ orch.kind # MIME_EXE
             /\ ~(Streamed.res = "extractor_error" /\ orch.kind \in {MIME_ZIP, MIME_7Z}))
                => /\ orch'.pc = "aborted"
                   /\ hist'.ran = <<"compress_tools">>
                   /\ db' = Streamed.db]_vars

\* 7z was invoked after the streaming extractor failed on a 7z archive, and the
\* run went on
C33_Witness ==
    /\ hist.ran = <<"compress_tools", "7zip">>
    /\ orch.pc = "files"
    /\ \E f \in Range(up.mods[1].files) : f.file_id = 11 /\ f.archive.mime = MIME_7Z

(***************************************************************************)
(* C34.  A full run over a finite listing ends: the page loop of a pass    *)
(* does not go on past the listing, so the first page fetched beyond the   *)
(* last page of the listing, which holds no mod and may hold no pager,     *)
(* leaves has_next_page false.                                             *)
(***************************************************************************)
PastListing == orch.page > Len(up.listing[orch.include_translations])

C34_FullRunLeavesPageLoop ==
    [][(PageStep /\ orch.full /\ PastListing) => ~orch'.has_next_page]_vars

(***************************************************************************)
(* deduplicate_interior_cells, one query and one statement at a time       *)
(* (deduplicate_interior_cells.rs 26-137).  orch is the call:              *)
(*   [pc, page, remaining, group, chosen]                                  *)
(* pc is "query" at the head of `loop`, "page" at the head of the `for`    *)
(* over the groups of the page that remain, "repoint" and "delete" before  *)
(* the second and third statement on a group, "done" after `break` and     *)
(* "idle" before the first call or after the process was stopped.          *)
(***************************************************************************)
IdleDedup == [pc |-> "idle", page |-> 0, remaining |-> {}, group |-> {}, chosen |-> NullInt]

\* a plugin of n interior cells of Skyrim.esm
InteriorsPlugin(n, masters) ==
    [header |-> [masters |-> masters], worlds |-> <<>>,
     cells |-> [k \in 1..n |-> [form_id |-> k, world_form_id |-> NullInt,
                                editor_id |-> <<"Room">>, x |-> NullInt, y |-> NullInt,
                                is_persistent |-> FALSE]]]

\* the database after the base game of n interior cells was seeded and a plugin
\* that edits every one of them was processed: n groups of two cells
ManyGroupsDb(n) ==
    The({persist_parsed_plugin(
             backfill_is_base_game(FilesDb, InteriorsPlugin(n, <<>>), 0).db,
             InteriorsPlugin(n, <<SkyrimEsm>>), "buf_c", f,
             The({m \in FilesDb.mods : m.id = f.mod_id}), <<"c.esp">>, 0).db :
         f \in {r \in FilesDb.files : r.nexus_file_id = 11}})

\* ManyGroupsDb(n) written out row by row
ManyGroupsRows(n) ==
    [FilesDb EXCEPT
        !.plugins = {[id |-> 1, name |-> <<"file">>, hash |-> seahash("buf_c"), file_id |-> 1,
                      mod_id |-> 1, masters |-> <<SkyrimEsm>>, file_name |-> <<"c.esp">>,
                      file_path |-> <<"c.esp">>, created_at |-> 0, updated_at |-> 0]},
        !.cells = {[id |-> IF base THEN k ELSE n + k, form_id |-> k, master |-> SkyrimEsm,
                    x |-> NullInt, y |-> NullInt, world_id |-> NullInt,
                    is_persistent |-> FALSE, is_base_game |-> base,
                    created_at |-> 0, updated_at |-> 0] : k \in 1..n, base \in BOOLEAN},
        !.plugin_cells = {[id |-> k, plugin_id |-> 1, cell_id |-> n + k,
                           editor_id |-> <<"Room">>, created_at |-> 0, updated_at |-> 0] :
                          k \in 1..n},
        !.seq.plugins = 2, !.seq.cells = 2 * n + 1, !.seq.plugin_cells = n + 1]

\* the database after c.esp (one base-game interior cell, twice) was processed in
\* both files of the mod and a.esp (one interior cell of its own) in both
FewGroupsDb(seeded) ==
    The({The({The({The({
        persist_parsed_plugin(d3, PluginA, "buf_a", f2, m, <<"a.esp">>, 0).db :
        d3 \in {persist_parsed_plugin(d2, PluginA, "buf_a", f1, m, <<"a.esp">>, 0).db}}) :
        d2 \in {persist_parsed_plugin(d1, PluginC, "buf_c", f2, m, <<"c.esp">>, 0).db}}) :
        d1 \in {persist_parsed_plugin(d0, PluginC, "buf_c", f1, m, <<"c.esp">>, 0).db}}) :
        d0 \in {IF seeded THEN backfill_is_base_game(FilesDb, BasePlugin, 0).db ELSE FilesDb},
        f1 \in {r \in FilesDb.files : r.nexus_file_id = 11},
        f2 \in {r \in FilesDb.files : r.nexus_file_id = 12},
        m \in FilesDb.mods})

InitDedupPages ==
    /\ db = ManyGroupsRows(PAGE_SIZE + 1)
    /\ blobs = {}
    /\ up = NoUpstream
    /\ now = 0
    /\ orch = IdleDedup
    /\ hist = InitHist

InitDedupSteps ==
    /\ db \in {FewGroupsDb(seeded) : seeded \in BOOLEAN}
    /\ blobs = {}
    /\ up = NoUpstream
    /\ now = 0
    /\ orch = IdleDedup
    /\ hist = InitHist

\* the command is started
DedupStart ==
    /\ orch.pc \in {"idle", "done"}
    /\ hist.dedups < MaxRuns
    /\ orch' = [IdleDedup EXCEPT !.pc = "query"]
    /\ hist' = [hist EXCEPT !.dedups = @ + 1,
                            !.before_dedup = IF hist.dedups = 0 THEN db ELSE @]
    /\ UNCHANGED <<db, blobs, up, now>>

\* deduplicate_interior_cells.rs 30-53: the query; an empty answer ends the loop
DedupQuery ==
    /\ orch.pc = "query"
    /\ \E duplicates_page \in duplicates(db) :
          orch' = IF duplicates_page = {}
                  THEN [orch EXCEPT !.pc = "done"]
                  ELSE [orch EXCEPT !.pc = "page", !.remaining = duplicates_page]
    /\ UNCHANGED <<db, blobs, up, now, hist>>

\* deduplicate_interior_cells.rs 60-104: the next group of the page, its chosen
\* cell and the first statement.  The groups of a page share no cell, so that the
\* order in which the page is walked does not show in the database.
DedupCollapse ==
    /\ orch.pc = "page"
    /\ \E g \in {CHOOSE g \in orch.remaining : TRUE} :
          \E chosen \in chosen_cell(g) :
             /\ db' = plugin_cells_delete(db, {c.id : c \in g})
             /\ orch' = [orch EXCEPT !.pc = "repoint", !.group = g, !.chosen = chosen]
    /\ UNCHANGED <<blobs, up, now, hist>>

\* deduplicate_interior_cells.rs 110-121: the second statement
DedupRepoint ==
    /\ orch.pc = "repoint"
    /\ db' = plugin_cells_repoint(db, orch.chosen, {c.id : c \in orch.group}, now)
    /\ orch' = [orch EXCEPT !.pc = "delete"]
    /\ UNCHANGED <<blobs, up, now, hist>>

\* deduplicate_interior_cells.rs 123-134: the third statement; after the last group
\* of the page, page += 1 and the loop queries again
DedupCellsDelete ==
    /\ orch.pc = "delete"
    /\ db' = cells_delete(db, orch.chosen, {c.id : c \in orch.group})
    /\ orch' = IF orch.remaining = {orch.group}
               THEN [IdleDedup EXCEPT !.pc = "query", !.page = orch.page + 1]
               ELSE [orch EXCEPT !.pc = "page", !.remaining = @ \ {orch.group},
                                 !.group = {}, !.chosen = NullInt]
    /\ UNCHANGED <<blobs, up, now, hist>>

\* the process is stopped between two statements of the command
DedupInterrupted ==
    /\ orch.pc \in {"query", "page", "repoint", "delete"}
    /\ orch' = IdleDedup
    /\ hist' = [hist EXCEPT !.ever_cancelled = TRUE, !.interrupted = TRUE,
                            !.abandoned = @ \cup ({orch.chosen} \ {NullInt})]
    /\ UNCHANGED <<db, blobs, up, now>>

NextDedupPages ==
    \/ DedupStart
    \/ DedupQuery
    \/ DedupCollapse
    \/ DedupRepoint
    \/ DedupCellsDelete

NextDedupSteps ==
    \/ DedupStart
    \/ DedupQuery
    \/ DedupCollapse
    \/ DedupRepoint
    \/ DedupCellsDelete
    \/ DedupInterrupted

\* the command on a table of more groups than one page holds
SpecDedupPages == InitDedupPages /\ [][NextDedupPages]_vars

\* the command, stopped at any statement and started again
SpecDedupSteps == InitDedupSteps /\ [][NextDedupSteps]_vars

(***************************************************************************)
(* C35.  deduplicate_interior_cells ends on a finite cells table and       *)
(* handles every duplicate group, also when there are more than 100: each  *)
(* iteration queries again and gets at most 100 of the groups that remain, *)
(* a group that was handled no longer satisfies the query, no statement    *)
(* adds a cell, and the loop ends exactly when the query returns no group. *)
(***************************************************************************)
DedupQueryStep == orch.pc = "query" /\ orch'.pc # "query"

\* the interior cells that share form_id and master with the cells of group g
InteriorsLike(d, g) ==
    {c \in d.cells : c.world_id = NullInt /\
                     \E x \in g : x.form_id = c.form_id /\ x.master = c.master}

C35_DedupHandlesEveryGroup ==
    /\ [][/\ DedupQueryStep =>
               /\ Cardinality(orch'.remaining) <= PAGE_SIZE
               /\ orch'.remaining \subseteq duplicate_groups(db)
               /\ (orch'.pc = "done") <=> (duplicate_groups(db) = {})
               /\ (orch'.pc # "done") => orch'.remaining # {}
          /\ orch.pc = "delete" => Cardinality(InteriorsLike(db', orch.group)) = 1
          /\ db'.cells \subseteq db.cells]_vars
    /\ [](orch.pc = "done" => duplicate_groups(db) = {})

\* the command ended after two pages on a table that held more groups than one page
C35_Witness ==
    /\ orch.pc = "done"
    /\ orch.page = 2
    /\ Cardinality(duplicate_groups(hist.before_dedup)) > PAGE_SIZE

(***************************************************************************)
(* C36.  When deduplicate_interior_cells was stopped between two of its    *)
(* statements and is then run again to completion, the database holds one  *)
(* Cell per interior (form_id, master), no PluginCell of a missing Cell,   *)
(* no two PluginCells with one (plugin_id, cell_id), and every plugin that *)
(* was linked to a cell of a group before the first run is linked to the   *)
(* surviving Cell of the group, also when the second run chose another     *)
(* cell than the first.                                                    *)
(***************************************************************************)
\* the plugins linked in database d to an interior cell with the key of cell c
LinkedPlugins(d, c) ==
    {r.plugin_id : r \in {q \in d.plugin_cells :
                            \E x \in d.cells : /\ x.id = q.cell_id /\ x.world_id = NullInt
                                               /\ x.form_id = c.form_id /\ x.master = c.master}}

C36_InterruptedDedupRerun ==
    orch.pc = "done" =>
        /\ duplicate_groups(db) = {}
        /\ \A r \in db.plugin_cells : r.cell_id \in Ids(db.cells)
        /\ \A r, q \in db.plugin_cells :
              (r.plugin_id = q.plugin_id /\ r.cell_id = q.cell_id) => r = q
        /\ \A c \in hist.before_dedup.cells :
              c.world_id = NullInt =>
                  LinkedPlugins(hist.before_dedup, c) \subseteq LinkedPlugins(db, c)

\* the command was stopped after it had chosen a cell, was run again to the end,
\* and the cell chosen by the stopped run is gone: the second run chose another
C36_Witness ==
    /\ orch.pc = "done"
    /\ hist.interrupted
    /\ \E a \in hist.abandoned : a \notin Ids(db.cells)
    /\ \E c \in hist.before_dedup.cells :
          c.world_id = NullInt /\ Cardinality(LinkedPlugins(hist.before_dedup, c)) > 1

(***************************************************************************)
(* The functions of models::file that write the files table, called in any *)
(* order with the arguments update passes to them (update.rs 158-172, 183, *)
(* 211, 221, 234, 241, 319; unrar.rs 39, 60, 67; seven_zip.rs 38).  orch.pc *)
(* is "files" before file::insert and "metadata" after it, with the        *)
(* returned row in orch.db_file.                                           *)
(***************************************************************************)
InitFile ==
    /\ db = FilesDb
    /\ blobs = {}
    /\ up = NoUpstream
    /\ now = 0
    /\ orch = [IdleOrch(FALSE, 1) EXCEPT !.pc = "files"]
    /\ hist = InitHist

\* file::insert of a file the endpoint lists, under its name and category of the day
FileInsert ==
    /\ orch.pc = "files"
    /\ \E nexus_file_id \in {11, 12}, name \in {<<"file">>, <<"renamed">>},
          category \in {Main, <<"OLD_VERSION">>}, m \in db.mods :
          \E r \in {file_insert(db, [name |-> name, nexus_file_id |-> nexus_file_id,
                                     mod_id |-> m.id, category |-> category], now)} :
             /\ db' = r.db
             /\ orch' = [orch EXCEPT !.pc = "metadata", !.db_file = r.row]
    /\ UNCHANGED <<blobs, up, now, hist>>

FileUpdateHasPlugin ==
    /\ orch.pc = "metadata"
    /\ db' = update_has_plugin(db, orch.db_file.id, FALSE)
    /\ orch' = [orch EXCEPT !.pc = "files", !.db_file = NoRow]
    /\ UNCHANGED <<blobs, up, now, hist>>

FileUpdateHasDownloadLink ==
    /\ orch.pc = "metadata"
    /\ db' = update_has_download_link(db, orch.db_file.id, FALSE)
    /\ orch' = [orch EXCEPT !.pc = "files", !.db_file = NoRow]
    /\ UNCHANGED <<blobs, up, now, hist>>

\* update_downloaded_at, followed or not by update_unable_to_extract_plugins
FileUpdateDownloadedAt ==
    /\ orch.pc = "metadata"
    /\ \E unable \in BOOLEAN :
          db' = IF unable
                THEN update_unable_to_extract_plugins(
                         update_downloaded_at(db, orch.db_file.id, now), orch.db_file.id, TRUE)
                ELSE update_downloaded_at(db, orch.db_file.id, now)
    /\ orch' = [orch EXCEPT !.pc = "files", !.db_file = NoRow]
    /\ UNCHANGED <<blobs, up, now, hist>>

\* the file is left as it is (its download failed)
FileLeft ==
    /\ orch.pc = "metadata"
    /\ orch' = [orch EXCEPT !.pc = "files", !.db_file = NoRow]
    /\ UNCHANGED <<db, blobs, up, now, hist>>

FileTick ==
    /\ hist.events < MaxCalls
    /\ now' = now + 1
    /\ hist' = [hist EXCEPT !.events = @ + 1]
    /\ UNCHANGED <<db, blobs, up, orch>>

NextFileCalls ==
    \/ FileInsert
    \/ FileUpdateHasPlugin
    \/ FileUpdateHasDownloadLink
    \/ FileUpdateDownloadedAt
    \/ FileLeft
    \/ FileTick

SpecFile == InitFile /\ [][NextFileCalls]_vars

(***************************************************************************)
(* C37.  The upsert of a File whose (mod_id, nexus_file_id) is stored      *)
(* leaves id, created_at, has_download_link, downloaded_at, has_plugin and *)
(* unable_to_extract_plugins of the row, and every other row, as they      *)
(* were; no write to the files table takes a file out of the processed set *)
(* of its mod.                                                             *)
(***************************************************************************)
FileUpsertStep == orch.pc = "files" /\ orch'.pc = "metadata"

\* the stored row with the key of the row the upsert returned
StoredBefore == {f \in db.files : /\ f.mod_id = orch'.db_file.mod_id
                                  /\ f.nexus_file_id = orch'.db_file.nexus_file_id}

KeptColumns(f) ==
    [id |-> f.id, created_at |-> f.created_at, has_download_link |-> f.has_download_link,
     downloaded_at |-> f.downloaded_at, has_plugin |-> f.has_plugin,
     unable_to_extract_plugins |-> f.unable_to_extract_plugins]

C37_FileUpsertKeepsProgress ==
    [][/\ FileUpsertStep =>
            /\ orch'.db_file \in db'.files
            /\ db'.files \ {orch'.db_file} = db.files \ StoredBefore
            /\ \A f \in StoredBefore : KeptColumns(orch'.db_file) = KeptColumns(f)
       /\ \A m \in db.mods : ProcessedSet(db, m.id) \subseteq ProcessedSet(db', m.id)]_vars

\* the upsert has met, at a later time, the row of a file that is in the processed
\* set with every one of the four columns away from its default
C37_Witness ==
    /\ orch.pc = "metadata"
    /\ orch.db_file.created_at < orch.db_file.updated_at
    /\ orch.db_file.nexus_file_id \in ProcessedSet(db, orch.db_file.mod_id)
    /\ orch.db_file.downloaded_at # NullInt
    /\ orch.db_file.unable_to_extract_plugins
    /\ ~orch.db_file.has_plugin
    /\ ~orch.db_file.has_download_link
    /\ orch.db_file.name = <<"renamed">>


NextKilled ==
    \/ StartRun
    \/ PassBegin
    \/ PageFetch
    \/ PassEnd
    \/ ModBegin
    \/ PageEnd
    \/ FileBegin
    \/ ModEnd
    \/ FileMetadata
    \/ FileLink
    \/ FileDownload
    \/ FileSniff
    \/ FileExtract
    \/ Tick
    \/ UpstreamUpdate
    \/ Cancel

\* runs of the update command that may be killed, on a changing upstream
SpecKilled == Init /\ [][NextKilled]_vars

(***************************************************************************)
(* C38.  The mod upsert leaves every stored last_updated_files_at as it    *)
(* was, and a mod that a batched_insert returned and for which             *)
(* update_last_updated_files_at has not been reached since is returned     *)
(* again by the batched_insert of the next page fetch that scrapes it      *)
(* (the scraped last_update_at never decreases).                           *)
(***************************************************************************)
FilesAt(d) == {[id |-> m.id, last_updated_files_at |-> m.last_updated_files_at] : m \in d.mods}

C38_UpsertKeepsFilesAt ==
    [][PageStep =>
          /\ FilesAt(db) \subseteq FilesAt(db')
          /\ \A i \in 1..Len(ScrapedMods) :
                ScrapedMods[i].nexus_mod_id \in hist.pending
                    => ScrapedMods[i].nexus_mod_id \in SeqIds(orch'.mods)]_vars

\* a run was killed between the upsert of a mod and update_last_updated_files_at,
\* the upstream has changed the mod since, and the next run has upserted it again
C38_Witness ==
    /\ orch.pc = "mods"
    /\ hist.interrupted
    /\ hist.ever_changed
    /\ \E i \in 1..Len(orch.mods) :
          /\ orch.mods[i].created_at < orch.mods[i].updated_at
          /\ \E m \in hist.db_at_start.mods :
                /\ m.id = orch.mods[i].id
                /\ m.last_updated_files_at = orch.mods[i].last_updated_files_at
                /\ up.mods[m.nexus_mod_id].last_update > 0


(***************************************************************************)
(* DownloadLinkResponse::download_file, statement by statement             *)
(* (download_link.rs 76-116).  A file is the sequence of the bytes written *)
(* to it; a response body is the sequence of its bytes, and its stream     *)
(* either delivers all of them or fails after the first fail_at of them.   *)
(*   orch.pc is "loop" at the head of `for attempt in 1..=3`, "copy"       *)
(*   inside tokio::io::copy and "returned" after the call.                 *)
(***************************************************************************)
Bodies == {<<1, 2, 3>>, <<4, 5>>, <<>>}
NoFailure == NullInt

\* tempfile(): a new, empty file, whatever the file of the attempt before holds
tempfile_kept(tokio_file) == tokio_file

tempfile(tokio_file) == <<>>

IdleDownload ==
    [pc |-> "loop", attempt |-> 1, tokio_file |-> <<>>, body |-> <<>>, fail_at |-> NoFailure,
     streamed |-> <<>>, slept |-> 0, res |-> "none", failed_midstream |-> 0]

InitDownload ==
    /\ db = EmptyDb
    /\ blobs = {}
    /\ up = NoUpstream
    /\ now = 0
    /\ orch = IdleDownload
    /\ hist = InitHist

\* download_link.rs 77-94: the file is created and the request is sent; send() or
\* error_for_status() fail, or the response arrives with its body still to be read
DownloadSend ==
    /\ orch.pc = "loop"
    /\ orch.attempt <= MAX_ATTEMPTS
    /\ \E outcome \in {"ok", "network_error", "status_4xx", "status_5xx"}, body \in Bodies :
       \E fail_at \in {NoFailure} \cup 0..Len(body) :
          orch' = IF attempt_result("download_file", outcome) = "sleep_continue"
                  THEN [orch EXCEPT !.tokio_file = tempfile(orch.tokio_file),
                                    !.attempt = @ + 1, !.slept = @ + RETRY_SLEEP,
                                    !.body = <<>>, !.fail_at = NoFailure, !.streamed = <<>>]
                  ELSE [orch EXCEPT !.tokio_file = tempfile(orch.tokio_file), !.pc = "copy",
                                    !.body = body, !.fail_at = fail_at, !.streamed = <<>>]
    /\ UNCHANGED <<db, blobs, up, now, hist>>

\* download_link.rs 98-104: tokio::io::copy moves the next bytes of the stream
DownloadCopy ==
    /\ orch.pc = "copy"
    /\ Len(orch.streamed) < Len(orch.body)
    /\ Len(orch.streamed) # orch.fail_at
    /\ \E byte \in {orch.body[Len(orch.streamed) + 1]} :
          orch' = [orch EXCEPT !.tokio_file = Append(@, byte), !.streamed = Append(@, byte)]
    /\ UNCHANGED <<db, blobs, up, now, hist>>

\* download_link.rs 108-110: the stream fails; a warning, a sleep, the next attempt
DownloadCopyFails ==
    /\ orch.pc = "copy"
    /\ Len(orch.streamed) = orch.fail_at
    /\ orch' = [orch EXCEPT !.pc = "loop", !.attempt = @ + 1, !.slept = @ + RETRY_SLEEP,
                            !.failed_midstream = @ + (IF orch.streamed # <<>> THEN 1 ELSE 0)]
    /\ UNCHANGED <<db, blobs, up, now, hist>>

\* download_link.rs 105-107: the stream ended; the file is returned
DownloadCopyEnds ==
    /\ orch.pc = "copy"
    /\ Len(orch.streamed) = Len(orch.body)
    /\ Len(orch.streamed) # orch.fail_at
    /\ orch' = [orch EXCEPT !.pc = "returned", !.res = "ok"]
    /\ UNCHANGED <<db, blobs, up, now, hist>>

\* download_link.rs 114: Err(anyhow!("Failed to download file in three attempts"))
DownloadExhausted ==
    /\ orch.pc = "loop"
    /\ orch.attempt > MAX_ATTEMPTS
    /\ orch' = [orch EXCEPT !.pc = "returned", !.res = "err"]
    /\ UNCHANGED <<db, blobs, up, now, hist>>

NextDownload ==
    \/ DownloadSend
    \/ DownloadCopy
    \/ DownloadCopyFails
    \/ DownloadCopyEnds
    \/ DownloadExhausted

\* one call of download_file
SpecDownload == InitDownload /\ [][NextDownload]_vars

(***************************************************************************)
(* C39.  The file download_file returns holds exactly the bytes the        *)
(* successful attempt streamed, which are the whole body of its response;  *)
(* while an attempt copies, the file holds the bytes of that attempt only. *)
(***************************************************************************)
C39_FreshTempFilePerAttempt ==
    /\ orch.pc = "copy" => orch.tokio_file = orch.streamed
    /\ (orch.pc = "returned" /\ orch.res = "ok")
          => (orch.tokio_file = orch.streamed /\ orch.tokio_file = orch.body)

\* the file is returned by the third attempt after two attempts that failed with
\* bytes already written
C39_Witness ==
    /\ orch.pc = "returned"
    /\ orch.res = "ok"
    /\ orch.attempt = 3
    /\ orch.failed_midstream = 2
    /\ orch.tokio_file = <<4, 5>>


\* files::get after a successful response whose body is read: the `?` on the wait
\* returns the gate's error, and a failed .expect(..) unwinds through the call
get_returns(wait) ==
    CASE wait.panic -> "panic"
      [] ~wait.ok -> "err"
      [] OTHER -> "ok"

(***************************************************************************)
(* C40.  When both remaining counters are <= 1 and hourly_reset + 5        *)
(* seconds lies before the current time, rate_limit_wait_duration yields a *)
(* wait that is not negative and the API call that received the response  *)
(* succeeds.                                                               *)
(***************************************************************************)
ResetIsPast ==
    /\ DOMAIN orch.headers = RateLimitHeaders
    /\ orch.headers[DAILY_REMAINING] <= 1
    /\ orch.headers[HOURLY_REMAINING] <= 1
    /\ orch.headers[HOURLY_RESET] + RESET_MARGIN < orch.utc_now

C40_PastResetStillSucceeds ==
    (orch.pc = "returned" /\ ResetIsPast)
        => /\ orch.res.ok
           /\ orch.res.secs >= 0
           /\ get_returns(orch.res) = "ok"

====
